---- MODULE Spec2Model ----
(***************************************************************************)
(* Verification model of the vigil job scheduler: the job_runs repository  *)
(* (createIdempotent, claimPending, refreshLock, complete, fail,           *)
(* resetAbandoned), the jobs repository (findDue, findById, update,        *)
(* softDelete) and SchedulerService (start, tick, lock refresh timer).     *)
(*                                                                         *)
(* Time is counted in units of one tick interval (30 s): the lock refresh  *)
(* interval of 120 s is 4 units and the lease of 5 minutes is 10 units.    *)
(* Database statements take no model time; the execution of a run (an      *)
(* agent run or a skill) may last any number of units.                     *)
(*                                                                         *)
(* The chat path is modelled apart from the scheduler: the route POST      *)
(* /chat/completions, AgentService.runStream with its stream generator,    *)
(* and the tables threads and messages it writes. So is JobService with    *)
(* its callers, the REST routes and the create_job / update_job tools.     *)
(***************************************************************************)
EXTENDS Integers, Sequences, FiniteSets, TLC

\* ---- bounds of the model --------------------------------------------------
MaxRunAt == 2
MaxTime == 11
MaxRuns == 3
NSlots == 2
NCallers == 2
MaxCalls == 4
MaxEvents == 2
MaxStamp == 2
MaxThreadMsgs == 6
DayLen == 6

\* ---- program constants (in units of 30 s) ----------------------------------
TICK_INTERVAL == 1
LOCK_REFRESH_INTERVAL == 4
LEASE == 10
DEFAULT_MAX_RETRIES == 3
PollInterval == 2
LeadTime == 1

NULL == -1
NoSchedule == 0

Jobs == {1, 2}
Slots == 1..NSlots
Callers == 1..NCallers
Instants == {0, 1}
Reqs == {1, 2}
MemIds == {1, 2}
MemCallers == {1, 2}
RowIds == {1, 2}
Tables == {"threads", "messages", "memory_entries", "jobs"}
ChatThreads == {1, 2}
TitleThreads == {1, 2}
Handlers == {1, 2}

VARIABLES
    now,            \* wall clock, NOW() of the database and Date of the process
    jobs,           \* table jobs: job id -> row
    job_runs,       \* table job_runs: sequence indexed by id (BIGSERIAL)
    threads,        \* table threads with the roles of each thread's messages
    notifications,  \* notifications handed to NotificationService.notify, in order
    tickTimer,      \* SchedulerService.tickTimer: next fire time, NULL when not set
    pc,             \* per tick invocation: the statement it is at
    dueJobs,        \* per tick invocation: rows returned by findDue not yet handled
    cur,            \* per tick invocation: the due job between createIdempotent and update
    created,        \* per tick invocation: ids of the runs its createIdempotent calls inserted
    claimed,        \* per tick invocation: the row returned by claimPending
    job,            \* per tick invocation: the row returned by findById
    thread,         \* per tick invocation: id of the wake thread it created
    lockRefresh,    \* live lock refresh intervals: set of [run, at]
    activeAbortControllers, \* SchedulerService.activeAbortControllers, by run id
    rowLock,        \* row locks of statements in flight: run id -> caller, 0 when free
    cpc,            \* per repository caller: position inside its statement
    carg,           \* per repository caller: arguments of the statement
    cres,           \* per repository caller: result of its last statement
    calls,          \* per repository caller: number of statements it has issued
    chatThreads,    \* table threads of the chat path: ids of the rows
    messages,       \* table messages: sequence indexed by id (BIGSERIAL)
    rpc,            \* per chat request: the statement it is at
    rthread,        \* per chat request: the thread it runs on
    status,         \* per chat request: HTTP status of the reply, 0 before any
    loaded,         \* per chat request: the list returned by its last getMessages
    isFirstMessage, \* per chat request: runStream's isFirstMessage
    inputItems,     \* per chat request: the input handed to the LM run
    yielded,        \* per chat request: events the stream generator has yielded so far
    usage,          \* per chat request: usage of the stream generator
    fullText,       \* per chat request: fullText of the stream generator
    sse,            \* per chat request: events written to the response, in order
    resolved,       \* per chat request: values usageResolve was called with
    published,      \* per chat request: thread ids it emitted response:complete with
    wrote,          \* per chat request: ids of the messages it inserted
    jobTable,       \* table jobs as JobService writes it: id -> payload columns
    memory_entries, \* table memory_entries: id -> row
    mpc,            \* per memory caller: position inside its operation
    mop,            \* per memory caller: the operation it is in, with its embedding
    mout,           \* per memory caller: what its last operation returned and reported
    toolOut,        \* what the last tool invocation came to
    repo,           \* the repository (by table name) that rows belongs to
    rows,           \* rows of that table: id -> row
    sres,           \* result of the last statement on rows
    result,         \* per slot: what skill.execute returned to the tick
    tmsgs,          \* per thread: roles of its messages, as the title handler reads them
    openRuns,       \* per thread: runStream calls past their user message, not yet ended
    threadTitle,    \* per thread: column title of its row
    titleSets,      \* per thread: number of updateTitle calls that wrote the row
    updatedSse,     \* per thread: number of sse thread:updated events published
    hpc,            \* per handler invocation: the statement it is at
    hthread,        \* per handler invocation: threadId of its event
    htitle,         \* per handler invocation: its trimmed title
    hout,           \* per handler invocation: how its last run settled
    dpc,            \* DepartureCheckSkill.execute: the statement it is at
    dclock,         \* Date.now() of the skill, in poll intervals
    dvalid,         \* whether context.job.skill_config parses
    aborted,        \* context.signal.aborted
    dresult,        \* what execute returned
    dsent,          \* number of 'Time to leave' notifications sent
    darrival,       \* config.arrivalTime, as a time of day
    dreached        \* whether the clock has reached the arrival time since execute began

schedVars == <<now, jobs, threads, notifications, tickTimer, pc, dueJobs,
               cur, created, claimed, job, thread, lockRefresh, activeAbortControllers>>
repoVars == <<rowLock, cpc, carg, cres, calls>>
chatVars == <<chatThreads, messages, rpc, rthread, status, loaded, isFirstMessage,
              inputItems, yielded, fullText, sse, resolved, published, usage, wrote>>
jobSvcVars == <<jobTable>>
memVars == <<memory_entries, mpc, mop, mout, toolOut>>
storeVars == <<repo, rows, sres>>
skillVars == <<result>>
titleVars == <<tmsgs, openRuns, threadTitle, titleSets, updatedSse, hpc, hthread, htitle, hout>>
departVars == <<dpc, dclock, dvalid, aborted, dresult, dsent, darrival, dreached>>
vars == <<now, jobs, job_runs, threads, notifications, tickTimer, pc, dueJobs,
          cur, created, claimed, job, thread, lockRefresh, activeAbortControllers,
          rowLock, cpc, carg, cres, calls,
          chatThreads, messages, rpc, rthread, status, loaded, isFirstMessage,
          inputItems, yielded, fullText, sse, resolved, published, usage, wrote, jobTable,
          memory_entries, mpc, mop, mout, toolOut, repo, rows, sres, result,
          tmsgs, openRuns, threadTitle, titleSets, updatedSse, hpc, hthread, htitle, hout,
          dpc, dclock, dvalid, aborted, dresult, dsent, darrival, dreached>>

\* ---- helpers ---------------------------------------------------------------
RunIds == 1..Len(job_runs)

NoRow == [id |-> 0, job_id |-> 0, retry_count |-> 0]
NoJob == [id |-> 0, kind |-> "none", max_retries |-> 0]

MinOf(S) == CHOOSE x \in S : \A y \in S : x <= y

\* ---- table job_runs --------------------------------------------------------
\* a row as inserted by createIdempotent: the column defaults of SCHEMA.sql
NewRun(jobId, ts) ==
    [job_id |-> jobId, scheduled_for |-> ts, locked_until |-> NULL,
     status |-> "pending", retry_count |-> 0, thread_id |-> NULL,
     error |-> ""]

NoRunningRun_Unchecked(runs, jobId) == TRUE

\* the NOT EXISTS subquery of createIdempotent, evaluated on the statement's snapshot
NoRunningRun(runs, jobId) ==
    ~ \E i \in 1..Len(runs) : runs[i].job_id = jobId /\ runs[i].status = "running"

Conflict_NoArbiter(runs, jobId, ts) == FALSE

\* the arbiter of ON CONFLICT (job_id, scheduled_for): the unique index, current rows
Conflict(runs, jobId, ts) ==
    \E i \in 1..Len(runs) : runs[i].job_id = jobId /\ runs[i].scheduled_for = ts

\* the INSERT of createIdempotent, given the outcome of its NOT EXISTS subquery
InsertRun(runs, jobId, ts, notRunning) ==
    IF notRunning /\ ~Conflict(runs, jobId, ts)
    THEN Append(runs, NewRun(jobId, ts))
    ELSE runs

Claimable_NoSkipLocked(runs, locks) ==
    {i \in 1..Len(runs) : runs[i].status = "pending"}

\* rows the subquery of claimPending can take: pending and not locked by another statement
Claimable(runs, locks) ==
    {i \in 1..Len(runs) : runs[i].status = "pending" /\ locks[i] = 0}

SelectPending_Newest(runs, locks) ==
    IF Claimable(runs, locks) = {} THEN 0
    ELSE CHOOSE i \in Claimable(runs, locks) : \A k \in Claimable(runs, locks) : k <= i

\* SELECT id ... WHERE status = 'pending' ORDER BY id FOR UPDATE SKIP LOCKED LIMIT 1
SelectPending(runs, locks) ==
    IF Claimable(runs, locks) = {} THEN 0 ELSE MinOf(Claimable(runs, locks))

\* the UPDATE of claimPending on the selected row
MarkRunning(runs, id, t) ==
    [runs EXCEPT ![id].status = "running",
                 ![id].locked_until = t + LEASE]

refreshLock_Noop(runs, id, t) == runs

refreshLock_AnyStatus(runs, id, t) == [runs EXCEPT ![id].locked_until = t + LEASE]

refreshLock(runs, id, t) ==
    IF id \in 1..Len(runs) /\ runs[id].status = "running"
    THEN [runs EXCEPT ![id].locked_until = t + LEASE]
    ELSE runs

complete_NoThread(runs, id, threadId) ==
    [runs EXCEPT ![id].status = "completed",
                 ![id].locked_until = NULL]

complete(runs, id, threadId) ==
    [runs EXCEPT ![id].status = "completed",
                 ![id].thread_id = threadId,
                 ![id].locked_until = NULL]

fail_NoError(runs, id, err) ==
    [runs EXCEPT ![id].status = "failed",
                 ![id].retry_count = @ + 1,
                 ![id].locked_until = NULL]

\* JobRunRepository.fail
fail(runs, id, err) ==
    [runs EXCEPT ![id].status = "failed",
                 ![id].retry_count = @ + 1,
                 ![id].error = err,
                 ![id].locked_until = NULL]

Abandoned_IgnoresLease(r, t) == r.status = "running"

Abandoned(r, t) == r.status = "running" /\ r.locked_until < t

resetAbandoned(runs, t) ==
    [i \in 1..Len(runs) |->
        IF Abandoned(runs[i], t)
        THEN [runs[i] EXCEPT !.status = "pending", !.locked_until = NULL]
        ELSE runs[i]]

NoLocks == [i \in 1..MaxRuns + 1 |-> 0]

\* ---- table jobs ------------------------------------------------------------
Due_IgnoresDeleted(j, t) == jobs[j].enabled /\ jobs[j].next_run_at <= t

\* the WHERE clause of JobRepository.findDue
Due(j, t) == jobs[j].enabled /\ jobs[j].next_run_at <= t /\ ~jobs[j].deleted

computeNextRun_NotStrict(schedule, t) ==
    IF schedule = NoSchedule THEN NULL
    ELSE (t \div schedule) * schedule

\* croner's nextRun(): the first fire time strictly after t; NULL when the
\* schedule is missing or admits no fire time
computeNextRun(schedule, t) ==
    IF schedule = NoSchedule THEN NULL
    ELSE ((t \div schedule) + 1) * schedule

\* JobRepository.update: changes nothing on a soft-deleted row
updateJob(js, j, field, value) ==
    IF js[j].deleted THEN js
    ELSE CASE field = "next_run_at" -> [js EXCEPT ![j].next_run_at = value]
           [] field = "enabled" -> [js EXCEPT ![j].enabled = value]

\* JobRepository.findDue: the rows as read at that moment
findDue(t) ==
    {[id |-> j, next_run_at |-> jobs[j].next_run_at, schedule |-> jobs[j].schedule] :
        j \in {k \in Jobs : Due(k, t)}}

NoDue == [id |-> 0, next_run_at |-> NULL, schedule |-> NoSchedule]

\* what a repository caller holds: the statement, its arguments, the outcome of
\* the NOT EXISTS subquery (createIdempotent), the row locked (claimPending)
NoCall == [op |-> "none", job_id |-> 0, ts |-> 0, notRunning |-> FALSE, sel |-> 0]

\* ---- initial state ---------------------------------------------------------
\* Job 1 is a prompt job firing every 30 s with max_retries 1; job 2 is either a
\* skill job firing every 240 s or a one-shot job whose skill is not registered,
\* with the default max_retries.  Both were created before time 0 and are due at 0.
JobRow(kind, schedule, maxRetries, nextRunAt) ==
    [kind |-> kind, schedule |-> schedule, enabled |-> TRUE, deleted |-> FALSE,
     max_retries |-> maxRetries, next_run_at |-> nextRunAt]

InitJobs ==
    {[j \in Jobs |-> IF j = 1 THEN JobRow("prompt", 1, 1, 0)
                              ELSE JobRow(k2[1], k2[2], DEFAULT_MAX_RETRIES, 0)] :
        k2 \in {<<"skill", 8>>, <<"unknown", NoSchedule>>}}

\* two jobs that fire once: a prompt job and a job whose skill is registered or not
OneShotJobs ==
    {[j \in Jobs |-> IF j = 1 THEN JobRow("prompt", NoSchedule, 1, 0)
                              ELSE JobRow(k, NoSchedule, DEFAULT_MAX_RETRIES, 0)] :
        k \in {"skill", "unknown"}}

InitSched ==
    /\ now = 0
    /\ threads = <<>>
    /\ notifications = <<>>
    /\ tickTimer = NULL
    /\ pc = [s \in Slots |-> "idle"]
    /\ dueJobs = [s \in Slots |-> {}]
    /\ cur = [s \in Slots |-> NoDue]
    /\ created = [s \in Slots |-> {}]
    /\ claimed = [s \in Slots |-> NoRow]
    /\ job = [s \in Slots |-> NoJob]
    /\ thread = [s \in Slots |-> 0]
    /\ lockRefresh = {}
    /\ activeAbortControllers = {}

InitRepo ==
    /\ rowLock = NoLocks
    /\ cpc = [c \in Callers |-> "idle"]
    /\ carg = [c \in Callers |-> NoCall]
    /\ cres = [c \in Callers |-> "none"]
    /\ calls = [c \in Callers |-> 0]

\* the chat path before any request
InitChat ==
    /\ chatThreads = {}
    /\ messages = <<>>
    /\ rpc = [r \in Reqs |-> "idle"]
    /\ rthread = [r \in Reqs |-> 0]
    /\ status = [r \in Reqs |-> 0]
    /\ loaded = [r \in Reqs |-> <<>>]
    /\ isFirstMessage = [r \in Reqs |-> FALSE]
    /\ inputItems = [r \in Reqs |-> <<>>]
    /\ yielded = [r \in Reqs |-> <<>>]
    /\ fullText = [r \in Reqs |-> <<>>]
    /\ sse = [r \in Reqs |-> <<>>]
    /\ resolved = [r \in Reqs |-> <<>>]
    /\ published = [r \in Reqs |-> <<>>]
    /\ usage = [r \in Reqs |-> NULL]
    /\ wrote = [r \in Reqs |-> {}]

\* a job id that has no row yet
NoPayload == [prompt |-> NULL, skill_name |-> NULL, skill_config |-> NULL,
              exists |-> FALSE, deleted |-> FALSE]

\* JobService before any call
InitJobSvc == jobTable = [j \in Jobs |-> NoPayload]

\* a memory id that has no row yet
NoEntry == [exists |-> FALSE, content |-> 0, embedding |-> 0, deleted_at |-> NULL]

NoMemOp == [op |-> "none", content |-> 0, id |-> 0, embedding |-> 0]

NoMemOut == [ret |-> "none", said |-> "none"]

\* the memory service before any call
InitMem ==
    /\ memory_entries = [i \in MemIds |-> NoEntry]
    /\ mpc = [c \in MemCallers |-> "idle"]
    /\ mop = [c \in MemCallers |-> NoMemOp]
    /\ mout = [c \in MemCallers |-> NoMemOut]
    /\ toolOut = [tool |-> "none", out |-> "none"]

\* skill.execute has not returned
NoResult == [success |-> FALSE, message |-> "none", disableJob |-> FALSE]

InitSkill == result = [s \in Slots |-> NoResult]

\* no thread has a message or a title, no handler is running
InitTitle ==
    /\ tmsgs = [t \in TitleThreads |-> <<>>]
    /\ openRuns = [t \in TitleThreads |-> 0]
    /\ threadTitle = [t \in TitleThreads |-> <<>>]
    /\ titleSets = [t \in TitleThreads |-> 0]
    /\ updatedSse = [t \in TitleThreads |-> 0]
    /\ hpc = [h \in Handlers |-> "idle"]
    /\ hthread = [h \in Handlers |-> 0]
    /\ htitle = [h \in Handlers |-> <<>>]
    /\ hout = [h \in Handlers |-> "none"]

\* execute has not been called
InitDepart ==
    /\ dpc = "idle"
    /\ dclock = 0
    /\ dvalid = TRUE
    /\ aborted = FALSE
    /\ dresult = NoResult
    /\ dsent = 0
    /\ darrival = 0
    /\ dreached = TRUE

\* a row id that has no row yet
NoStoreRow == [exists |-> FALSE, deleted_at |-> NULL, v |-> 0]

NoStoreResult == [op |-> "none", id |-> 0, out |-> "none", ids |-> {}]

\* the repository of table t over its empty table
InitStoreOf(t) ==
    /\ repo = t
    /\ rows = [i \in RowIds |-> NoStoreRow]
    /\ sres = NoStoreResult

InitStore == InitStoreOf("jobs")

Init ==
    /\ jobs \in InitJobs
    /\ job_runs = <<>>
    /\ InitSched
    /\ InitRepo
    /\ InitChat
    /\ InitJobSvc
    /\ InitMem
    /\ InitSkill
    /\ InitStore
    /\ InitTitle
    /\ InitDepart

InitOneShot ==
    /\ jobs \in OneShotJobs
    /\ job_runs = <<>>
    /\ InitSched
    /\ InitRepo
    /\ InitChat
    /\ InitJobSvc
    /\ InitMem
    /\ InitSkill
    /\ InitStore
    /\ InitTitle
    /\ InitDepart

\* ---- SchedulerService ------------------------------------------------------
IdleSlots == {s \in Slots : pc[s] = "idle"}

\* a tick() invocation begins: it runs up to its first await, resetAbandoned
BeginTick(s) == pc' = [pc EXCEPT ![s] = "reset"]

\* a tick() invocation returns
EndTick(s) ==
    /\ pc' = [pc EXCEPT ![s] = "idle"]
    /\ dueJobs' = [dueJobs EXCEPT ![s] = {}]
    /\ cur' = [cur EXCEPT ![s] = NoDue]
    /\ created' = [created EXCEPT ![s] = {}]
    /\ claimed' = [claimed EXCEPT ![s] = NoRow]
    /\ job' = [job EXCEPT ![s] = NoJob]
    /\ thread' = [thread EXCEPT ![s] = 0]

\* start(): set the interval and run the first tick immediately
Start ==
    /\ tickTimer = NULL
    /\ IdleSlots # {}
    /\ tickTimer' = now + TICK_INTERVAL
    /\ BeginTick(MinOf(IdleSlots))
    /\ UNCHANGED <<now, jobs, job_runs, threads, notifications, dueJobs, cur,
                   created, claimed, job, thread, lockRefresh, activeAbortControllers>>
    /\ UNCHANGED repoVars
    /\ UNCHANGED <<chatVars, jobSvcVars, memVars, storeVars, skillVars, titleVars, departVars>>

\* the interval of start() fires: setInterval(() => this.tick(), TICK_INTERVAL_MS)
TimerTick ==
    /\ tickTimer # NULL
    /\ tickTimer <= now
    /\ IdleSlots # {}
    /\ tickTimer' = tickTimer + TICK_INTERVAL
    /\ BeginTick(MinOf(IdleSlots))
    /\ UNCHANGED <<now, jobs, job_runs, threads, notifications, dueJobs, cur,
                   created, claimed, job, thread, lockRefresh, activeAbortControllers>>
    /\ UNCHANGED repoVars
    /\ UNCHANGED <<chatVars, jobSvcVars, memVars, storeVars, skillVars, titleVars, departVars>>

\* tick step 1: resetAbandoned
TickReset(s) ==
    /\ pc[s] = "reset"
    /\ job_runs' = resetAbandoned(job_runs, now)
    /\ pc' = [pc EXCEPT ![s] = "findDue"]
    /\ UNCHANGED <<now, jobs, threads, notifications, tickTimer, dueJobs, cur,
                   created, claimed, job, thread, lockRefresh, activeAbortControllers>>
    /\ UNCHANGED repoVars
    /\ UNCHANGED <<chatVars, jobSvcVars, memVars, storeVars, skillVars, titleVars, departVars>>

\* tick step 2: findDue
TickFindDue(s) ==
    /\ pc[s] = "findDue"
    /\ dueJobs' = [dueJobs EXCEPT ![s] = findDue(now)]
    /\ pc' = [pc EXCEPT ![s] = IF findDue(now) = {} THEN "claim" ELSE "enqueue"]
    /\ UNCHANGED <<now, jobs, job_runs, threads, notifications, tickTimer, cur,
                   created, claimed, job, thread, lockRefresh, activeAbortControllers>>
    /\ UNCHANGED repoVars
    /\ UNCHANGED <<chatVars, jobSvcVars, memVars, storeVars, skillVars, titleVars, departVars>>

\* tick step 2, loop body, first await: createIdempotent(job.id, job.next_run_at)
TickEnqueue(s) ==
    /\ pc[s] = "enqueue"
    /\ Len(job_runs) < MaxRuns
    /\ \E d \in dueJobs[s] :
        /\ job_runs' = InsertRun(job_runs, d.id, d.next_run_at, NoRunningRun(job_runs, d.id))
        /\ cur' = [cur EXCEPT ![s] = d]
        /\ dueJobs' = [dueJobs EXCEPT ![s] = @ \ {d}]
    /\ created' = [created EXCEPT ![s] =
            IF Len(job_runs') > Len(job_runs) THEN @ \cup {Len(job_runs')} ELSE @]
    /\ pc' = [pc EXCEPT ![s] = "advance"]
    /\ UNCHANGED <<now, jobs, threads, notifications, tickTimer,
                   claimed, job, thread, lockRefresh, activeAbortControllers>>
    /\ UNCHANGED repoVars
    /\ UNCHANGED <<chatVars, jobSvcVars, memVars, storeVars, skillVars, titleVars, departVars>>

\* tick step 2, loop body, second await: advance next_run_at or disable the job
TickAdvance(s) ==
    /\ pc[s] = "advance"
    /\ jobs' = IF computeNextRun(cur[s].schedule, now) # NULL
               THEN updateJob(jobs, cur[s].id, "next_run_at", computeNextRun(cur[s].schedule, now))
               ELSE updateJob(jobs, cur[s].id, "enabled", FALSE)
    /\ pc' = [pc EXCEPT ![s] = IF dueJobs[s] = {} THEN "claim" ELSE "enqueue"]
    /\ UNCHANGED <<now, job_runs, threads, notifications, tickTimer, dueJobs, cur,
                   created, claimed, job, thread, lockRefresh, activeAbortControllers>>
    /\ UNCHANGED repoVars
    /\ UNCHANGED <<chatVars, jobSvcVars, memVars, storeVars, skillVars, titleVars, departVars>>

\* tick step 3: claimPending; the tick returns when there is nothing to claim
TickClaim(s) ==
    /\ pc[s] = "claim"
    /\ LET id == SelectPending(job_runs, NoLocks) IN
        IF id = 0
        THEN /\ EndTick(s)
             /\ UNCHANGED job_runs
        ELSE /\ job_runs' = MarkRunning(job_runs, id, now)
             /\ claimed' = [claimed EXCEPT ![s] =
                    [id |-> id, job_id |-> job_runs[id].job_id,
                     retry_count |-> job_runs[id].retry_count]]
             /\ pc' = [pc EXCEPT ![s] = "lookup"]
             /\ UNCHANGED <<dueJobs, cur, created, job, thread>>
    /\ UNCHANGED <<now, jobs, threads, notifications, tickTimer,
                   lockRefresh, activeAbortControllers>>
    /\ UNCHANGED repoVars
    /\ UNCHANGED <<chatVars, jobSvcVars, memVars, storeVars, skillVars, titleVars, departVars>>

\* findById of the claimed run's job; a missing job fails the run, otherwise the
\* lock refresh interval is set and the abort controller registered
TickLookup(s) ==
    /\ pc[s] = "lookup"
    /\ IF jobs[claimed[s].job_id].deleted
       THEN /\ job_runs' = fail(job_runs, claimed[s].id, "Job not found")
            /\ EndTick(s)
            /\ UNCHANGED <<lockRefresh, activeAbortControllers>>
       ELSE /\ job' = [job EXCEPT ![s] =
                    [id |-> claimed[s].job_id, kind |-> jobs[claimed[s].job_id].kind,
                     max_retries |-> jobs[claimed[s].job_id].max_retries]]
            /\ lockRefresh' = lockRefresh \cup
                    {[run |-> claimed[s].id, at |-> now + LOCK_REFRESH_INTERVAL]}
            /\ activeAbortControllers' = activeAbortControllers \cup {claimed[s].id}
            /\ pc' = [pc EXCEPT ![s] = "dispatch"]
            /\ UNCHANGED <<job_runs, dueJobs, cur, created, claimed, thread>>
    /\ UNCHANGED <<now, jobs, threads, notifications, tickTimer>>
    /\ UNCHANGED repoVars
    /\ UNCHANGED <<chatVars, jobSvcVars, memVars, storeVars, skillVars, titleVars, departVars>>

\* dispatch by payload: an unknown skill fails the run and returns; a skill starts
\* executing; a prompt job creates its wake thread and calls runStream, which
\* persists the user message and then the system prompt
TickDispatch(s) ==
    /\ pc[s] = "dispatch"
    /\ CASE job[s].kind = "unknown" ->
              /\ job_runs' = fail(job_runs, claimed[s].id, "Unknown skill")
              /\ EndTick(s)
              /\ UNCHANGED threads
         [] job[s].kind = "skill" ->
              /\ pc' = [pc EXCEPT ![s] = "exec"]
              /\ UNCHANGED <<job_runs, threads, dueJobs, cur, created, claimed, job, thread>>
         [] job[s].kind = "prompt" ->
              /\ threads' = Append(threads, [source |-> "wake", job_run_id |-> claimed[s].id,
                                             messages |-> <<"user", "system">>])
              /\ thread' = [thread EXCEPT ![s] = Len(threads) + 1]
              /\ pc' = [pc EXCEPT ![s] = "exec"]
              /\ UNCHANGED <<job_runs, dueJobs, cur, created, claimed, job>>
    /\ UNCHANGED <<now, jobs, notifications, tickTimer,
                   lockRefresh, activeAbortControllers>>
    /\ UNCHANGED repoVars
    /\ UNCHANGED <<chatVars, jobSvcVars, memVars, storeVars, skillVars, titleVars, departVars>>

\* clearInterval(lockRefresh) of the tick that claimed run id
ClearRefresh(id) == {t \in lockRefresh : t.run # id}

\* what the ntfy request of a configured service may come to
Deliveries == {"ok", "non2xx", "transport"}

notify_Rethrows(configured, d) ==
    IF configured /\ d # "ok" THEN "threw" ELSE "returned"

\* NotificationService.notify: returns at once without url or topic; a response
\* that is not ok is logged, an exception of fetch is caught and logged
notify(configured, d) ==
    IF ~configured THEN "returned"
    ELSE IF d = "transport" THEN "returned"
    ELSE "returned"

\* the run ends well: the stream is drained (the assistant message persisted) or
\* the skill returned success; complete, last_run_at, success notification
ExecSucceed(s) ==
    /\ pc[s] = "exec"
    /\ IF job[s].kind = "skill"
       THEN \E disableJob \in BOOLEAN :
            /\ jobs' = IF disableJob THEN updateJob(jobs, job[s].id, "enabled", FALSE)
                        ELSE jobs
            /\ job_runs' = complete(job_runs, claimed[s].id, NULL)
            /\ UNCHANGED <<threads, notifications>>
       ELSE /\ threads' = [threads EXCEPT ![thread[s]].messages = Append(@, "assistant")]
            /\ UNCHANGED jobs
            /\ notifications' = Append(notifications,
                    [title |-> "Job completed", job |-> job[s].id])
            /\ \E configured \in BOOLEAN, d \in Deliveries :
                job_runs' = IF notify(configured, d) = "returned"
                            THEN complete(job_runs, claimed[s].id, thread[s])
                            ELSE fail(complete(job_runs, claimed[s].id, thread[s]),
                                      claimed[s].id, "error")
    /\ lockRefresh' = ClearRefresh(claimed[s].id)
    /\ activeAbortControllers' = activeAbortControllers \ {claimed[s].id}
    /\ EndTick(s)
    /\ UNCHANGED <<now, tickTimer>>
    /\ UNCHANGED repoVars
    /\ UNCHANGED <<chatVars, jobSvcVars, memVars, storeVars, skillVars, titleVars, departVars>>

RetriesExhausted_Strict(retryCount, maxRetries) == retryCount + 1 > maxRetries

\* the condition of the failure notification
RetriesExhausted(retryCount, maxRetries) == retryCount + 1 >= maxRetries

\* the failure path: the agent or the skill threw, or the skill returned success=false;
\* an exception of the failure notification would reach the outer catch of tick,
\* which logs it, after fail() has been executed
ExecFail(s) ==
    /\ pc[s] = "exec"
    /\ lockRefresh' = ClearRefresh(claimed[s].id)
    /\ activeAbortControllers' = activeAbortControllers \ {claimed[s].id}
    /\ job_runs' = fail(job_runs, claimed[s].id, "error")
    /\ notifications' =
            IF RetriesExhausted(claimed[s].retry_count, job[s].max_retries)
            THEN Append(notifications, [title |-> "Job failed", job |-> job[s].id])
            ELSE notifications
    /\ EndTick(s)
    /\ UNCHANGED <<now, jobs, threads, tickTimer>>
    /\ UNCHANGED repoVars
    /\ UNCHANGED <<chatVars, jobSvcVars, memVars, storeVars, skillVars, titleVars, departVars>>

\* a lock refresh interval fires: refreshLock(claimed.id)
LockRefreshFire ==
    /\ \E t \in lockRefresh :
        /\ t.at <= now
        /\ job_runs' = refreshLock(job_runs, t.run, now)
        /\ lockRefresh' = (lockRefresh \ {t}) \cup
                {[run |-> t.run, at |-> t.at + LOCK_REFRESH_INTERVAL]}
    /\ UNCHANGED <<now, jobs, threads, notifications, tickTimer, pc, dueJobs, cur,
                   created, claimed, job, thread, activeAbortControllers>>
    /\ UNCHANGED repoVars
    /\ UNCHANGED <<chatVars, jobSvcVars, memVars, storeVars, skillVars, titleVars, departVars>>

\* 30 s pass: every due timer has fired and every statement in flight has returned
Advance ==
    /\ now < MaxTime
    /\ \A s \in Slots : pc[s] \in {"idle", "exec"}
    /\ tickTimer # NULL
    /\ tickTimer > now
    /\ \A t \in lockRefresh : t.at > now
    /\ now' = now + 1
    /\ UNCHANGED <<jobs, job_runs, threads, notifications, tickTimer, pc, dueJobs,
                   cur, created, claimed, job, thread, lockRefresh, activeAbortControllers>>
    /\ UNCHANGED repoVars
    /\ UNCHANGED <<chatVars, jobSvcVars, memVars, storeVars, skillVars, titleVars, departVars>>

\* 30 s pass beyond the horizon of the model: the clock saturates at MaxTime, the
\* timers keep their distance to now and the timestamps in the database stand still
AdvanceBeyond ==
    /\ now = MaxTime
    /\ \A s \in Slots : pc[s] \in {"idle", "exec"}
    /\ tickTimer # NULL
    /\ tickTimer > now
    /\ \A t \in lockRefresh : t.at > now
    /\ tickTimer' = tickTimer - 1
    /\ lockRefresh' = {[run |-> t.run, at |-> t.at - 1] : t \in lockRefresh}
    /\ UNCHANGED <<now, jobs, job_runs, threads, notifications, pc, dueJobs,
                   cur, created, claimed, job, thread, activeAbortControllers>>
    /\ UNCHANGED repoVars
    /\ UNCHANGED <<chatVars, jobSvcVars, memVars, storeVars, skillVars, titleVars, departVars>>

\* the process dies (process.exit or a crash): timers and tick invocations are
\* gone, the database keeps its rows
Crash ==
    /\ tickTimer # NULL
    /\ tickTimer' = NULL
    /\ pc' = [s \in Slots |-> "idle"]
    /\ dueJobs' = [s \in Slots |-> {}]
    /\ cur' = [s \in Slots |-> NoDue]
    /\ created' = [s \in Slots |-> {}]
    /\ claimed' = [s \in Slots |-> NoRow]
    /\ job' = [s \in Slots |-> NoJob]
    /\ thread' = [s \in Slots |-> 0]
    /\ lockRefresh' = {}
    /\ activeAbortControllers' = {}
    /\ UNCHANGED <<now, jobs, job_runs, threads, notifications>>
    /\ UNCHANGED repoVars
    /\ UNCHANGED <<chatVars, jobSvcVars, memVars, storeVars, skillVars, titleVars, departVars>>

\* the steps of a scheduler process that stays alive
Alive ==
    \/ Start
    \/ TimerTick
    \/ \E s \in Slots : TickReset(s)
    \/ \E s \in Slots : TickFindDue(s)
    \/ \E s \in Slots : TickEnqueue(s)
    \/ \E s \in Slots : TickAdvance(s)
    \/ \E s \in Slots : TickClaim(s)
    \/ \E s \in Slots : TickLookup(s)
    \/ \E s \in Slots : TickDispatch(s)
    \/ \E s \in Slots : ExecSucceed(s)
    \/ \E s \in Slots : ExecFail(s)
    \/ LockRefreshFire
    \/ Advance

Next == Alive \/ Crash

Spec == Init /\ [][Next]_vars

\* a scheduler that never dies, followed without end: time goes on beyond MaxTime
NextForever == Alive \/ AdvanceBeyond

\* the event loop runs every timer that is due and every statement that has
\* returned, and every execution of a run ends
FairSpec ==
    /\ InitOneShot /\ [][NextForever]_vars
    /\ WF_vars(Start) /\ WF_vars(TimerTick) /\ WF_vars(LockRefreshFire)
    /\ WF_vars(Advance) /\ WF_vars(AdvanceBeyond)
    /\ \A s \in Slots :
        /\ WF_vars(TickReset(s)) /\ WF_vars(TickFindDue(s)) /\ WF_vars(TickEnqueue(s))
        /\ WF_vars(TickAdvance(s)) /\ WF_vars(TickClaim(s)) /\ WF_vars(TickLookup(s))
        /\ WF_vars(TickDispatch(s)) /\ WF_vars(ExecSucceed(s) \/ ExecFail(s))

\* ---- one-shot jobs as JobService.create makes them ----------------------------
RunAts == 0..MaxRunAt

nextRunAtOnCreate_Now(schedule, run_at, t) ==
    IF schedule # NoSchedule THEN computeNextRun(schedule, t) ELSE t

\* JobService.create: next_run_at of the new job, from the cron schedule or else
\* from run_at; NULL stands for the error thrown when neither is given
nextRunAtOnCreate(schedule, run_at, t) ==
    IF schedule # NoSchedule THEN computeNextRun(schedule, t)
    ELSE IF run_at # NULL THEN run_at
    ELSE NULL

\* two jobs created at time 0 with a run_at and no schedule: a prompt job and a
\* job whose skill is registered or not
CreatedOneShots ==
    {[j \in Jobs |->
        IF j = 1 THEN JobRow("prompt", NoSchedule, 1, nextRunAtOnCreate(NoSchedule, r[1], 0))
        ELSE JobRow(k, NoSchedule, DEFAULT_MAX_RETRIES,
                    nextRunAtOnCreate(NoSchedule, r[2], 0))] :
        k \in {"skill", "unknown"}, r \in [Jobs -> RunAts]}

InitCreated ==
    /\ jobs \in CreatedOneShots
    /\ job_runs = <<>>
    /\ InitSched
    /\ InitRepo
    /\ InitChat
    /\ InitJobSvc
    /\ InitMem
    /\ InitSkill
    /\ InitStore
    /\ InitTitle
    /\ InitDepart

SpecOneShot == InitCreated /\ [][Next]_vars

\* ---- the scheduler being stopped ----------------------------------------------
\* stop(): clear the tick interval, abort and forget every registered controller;
\* tick invocations in flight and their lock refresh intervals go on
Stop ==
    /\ tickTimer # NULL \/ activeAbortControllers # {}
    /\ tickTimer' = NULL
    /\ activeAbortControllers' = {}
    /\ UNCHANGED <<now, jobs, job_runs, threads, notifications, pc, dueJobs, cur,
                   created, claimed, job, thread, lockRefresh>>
    /\ UNCHANGED repoVars
    /\ UNCHANGED <<chatVars, jobSvcVars, memVars, storeVars, skillVars, titleVars, departVars>>

\* 30 s pass after stop() while runs are still executing
AdvanceStopped ==
    /\ now < MaxTime
    /\ tickTimer = NULL
    /\ \A s \in Slots : pc[s] \in {"idle", "exec"}
    /\ \E s \in Slots : pc[s] = "exec"
    /\ \A t \in lockRefresh : t.at > now
    /\ now' = now + 1
    /\ UNCHANGED <<jobs, job_runs, threads, notifications, tickTimer, pc, dueJobs,
                   cur, created, claimed, job, thread, lockRefresh, activeAbortControllers>>
    /\ UNCHANGED repoVars
    /\ UNCHANGED <<chatVars, jobSvcVars, memVars, storeVars, skillVars, titleVars, departVars>>

NextStop == Alive \/ Stop \/ AdvanceStopped

SpecStop == InitOneShot /\ [][NextStop]_vars

\* ---- the scheduler when calls inside a tick fail ------------------------------
tickSettles_NoCatch(threw) == IF threw THEN "rejected" ELSE "resolved"

\* how the promise of tick() settles: the body is one try block whose catch logs
tickSettles(threw) == "resolved"

\* an unhandled rejection ends the process with its timers and invocations
ProcessDies ==
    /\ tickTimer' = NULL
    /\ pc' = [s \in Slots |-> "idle"]
    /\ dueJobs' = [s \in Slots |-> {}]
    /\ cur' = [s \in Slots |-> NoDue]
    /\ created' = [s \in Slots |-> {}]
    /\ claimed' = [s \in Slots |-> NoRow]
    /\ job' = [s \in Slots |-> NoJob]
    /\ thread' = [s \in Slots |-> 0]
    /\ lockRefresh' = {}
    /\ activeAbortControllers' = {}

\* the statements tick() awaits before the inner try block
StorageSteps == {"reset", "findDue", "enqueue", "advance", "claim", "lookup"}

\* resetAbandoned, findDue, createIdempotent, update, claimPending, findById or
\* fail('Job not found') rejects: the outer catch logs and the tick returns
TickThrow(s) ==
    /\ pc[s] \in StorageSteps
    /\ IF tickSettles(TRUE) = "resolved"
       THEN /\ EndTick(s)
            /\ UNCHANGED <<tickTimer, lockRefresh, activeAbortControllers>>
       ELSE ProcessDies
    /\ UNCHANGED <<now, jobs, job_runs, threads, notifications>>
    /\ UNCHANGED repoVars
    /\ UNCHANGED <<chatVars, jobSvcVars, memVars, storeVars, skillVars, titleVars, departVars>>

\* fail('Unknown skill') or threadService.create rejects inside the inner try block:
\* the inner catch clears the interval, forgets the controller and fails the run
DispatchThrow(s) ==
    /\ pc[s] = "dispatch"
    /\ job[s].kind # "skill"
    /\ lockRefresh' = ClearRefresh(claimed[s].id)
    /\ activeAbortControllers' = activeAbortControllers \ {claimed[s].id}
    /\ job_runs' = fail(job_runs, claimed[s].id, "error")
    /\ notifications' =
            IF RetriesExhausted(claimed[s].retry_count, job[s].max_retries)
            THEN Append(notifications, [title |-> "Job failed", job |-> job[s].id])
            ELSE notifications
    /\ EndTick(s)
    /\ UNCHANGED <<now, jobs, threads, tickTimer>>
    /\ UNCHANGED repoVars
    /\ UNCHANGED <<chatVars, jobSvcVars, memVars, storeVars, skillVars, titleVars, departVars>>

\* the agent, the skill, complete or the notification threw and then fail() of the
\* inner catch rejects as well: the outer catch logs, the run stays as it was
ExecFailThrow(s) ==
    /\ pc[s] \in {"dispatch", "exec"}
    /\ IF tickSettles(TRUE) = "resolved"
       THEN /\ lockRefresh' = ClearRefresh(claimed[s].id)
            /\ activeAbortControllers' = activeAbortControllers \ {claimed[s].id}
            /\ EndTick(s)
            /\ UNCHANGED tickTimer
       ELSE ProcessDies
    /\ UNCHANGED <<now, jobs, job_runs, threads, notifications>>
    /\ UNCHANGED repoVars
    /\ UNCHANGED <<chatVars, jobSvcVars, memVars, storeVars, skillVars, titleVars, departVars>>

NextThrow ==
    \/ Alive
    \/ \E s \in Slots : TickThrow(s)
    \/ \E s \in Slots : DispatchThrow(s)
    \/ \E s \in Slots : ExecFailThrow(s)

SpecThrow == InitOneShot /\ [][NextThrow]_vars

\* ---- the statements of tick after complete() -----------------------------------
\* the run ends well and complete() has returned; the update of last_run_at is in flight
ExecComplete(s) ==
    /\ pc[s] = "exec"
    /\ IF job[s].kind = "skill"
       THEN \E disableJob \in BOOLEAN :
            /\ jobs' = IF disableJob THEN updateJob(jobs, job[s].id, "enabled", FALSE)
                        ELSE jobs
            /\ job_runs' = complete(job_runs, claimed[s].id, NULL)
            /\ UNCHANGED threads
       ELSE /\ threads' = [threads EXCEPT ![thread[s]].messages = Append(@, "assistant")]
            /\ job_runs' = complete(job_runs, claimed[s].id, thread[s])
            /\ UNCHANGED jobs
    /\ pc' = [pc EXCEPT ![s] = "lastRun"]
    /\ UNCHANGED <<now, notifications, tickTimer, dueJobs, cur, created, claimed, job, thread,
                   lockRefresh, activeAbortControllers>>
    /\ UNCHANGED repoVars
    /\ UNCHANGED <<chatVars, jobSvcVars, memVars, storeVars, skillVars, titleVars, departVars>>

\* jobRepo.update(last_run_at) resolves: the success notification of a prompt job,
\* then the interval is cleared and the controller forgotten
LastRunReturns(s) ==
    /\ pc[s] = "lastRun"
    /\ notifications' =
            IF job[s].kind = "skill" THEN notifications
            ELSE Append(notifications, [title |-> "Job completed", job |-> job[s].id])
    /\ lockRefresh' = ClearRefresh(claimed[s].id)
    /\ activeAbortControllers' = activeAbortControllers \ {claimed[s].id}
    /\ EndTick(s)
    /\ UNCHANGED <<now, jobs, job_runs, threads, tickTimer>>
    /\ UNCHANGED repoVars
    /\ UNCHANGED <<chatVars, jobSvcVars, memVars, storeVars, skillVars, titleVars, departVars>>

\* jobRepo.update(last_run_at) rejects inside the inner try block: the inner catch
\* clears the interval, forgets the controller, fails the run and notifies
LastRunThrows(s) ==
    /\ pc[s] = "lastRun"
    /\ lockRefresh' = ClearRefresh(claimed[s].id)
    /\ activeAbortControllers' = activeAbortControllers \ {claimed[s].id}
    /\ job_runs' = fail(job_runs, claimed[s].id, "error")
    /\ notifications' =
            IF RetriesExhausted(claimed[s].retry_count, job[s].max_retries)
            THEN Append(notifications, [title |-> "Job failed", job |-> job[s].id])
            ELSE notifications
    /\ EndTick(s)
    /\ UNCHANGED <<now, jobs, threads, tickTimer>>
    /\ UNCHANGED repoVars
    /\ UNCHANGED <<chatVars, jobSvcVars, memVars, storeVars, skillVars, titleVars, departVars>>

NextLastRun ==
    \/ Alive
    \/ \E s \in Slots : ExecComplete(s)
    \/ \E s \in Slots : LastRunReturns(s)
    \/ \E s \in Slots : LastRunThrows(s)

SpecLastRun == InitOneShot /\ [][NextLastRun]_vars

\* ---- the skill dispatch path, by what skill.execute returns -------------------
\* SkillResult: success, message, disableJob (absent counts as false)
SkillResults ==
    {[success |-> ok, message |-> msg, disableJob |-> dis] :
        ok \in BOOLEAN, msg \in {"Past arrival time", "Invalid skill_config"},
        dis \in BOOLEAN}

skillEnds_IgnoresSuccess(runs, id, res) == complete(runs, id, NULL)

\* how the run ends: success=false is thrown as Error(result.message), which the
\* inner catch passes to fail(); success=true completes the run without a thread
skillEnds(runs, id, res) ==
    IF ~res.success THEN fail(runs, id, res.message)
    ELSE complete(runs, id, NULL)

\* const result = await skill.execute(...)
SkillExecute(s) ==
    /\ pc[s] = "exec"
    /\ job[s].kind = "skill"
    /\ \E res \in SkillResults : result' = [result EXCEPT ![s] = res]
    /\ pc' = [pc EXCEPT ![s] = "result"]
    /\ UNCHANGED <<now, jobs, job_runs, threads, notifications, tickTimer, dueJobs, cur,
                   created, claimed, job, thread, lockRefresh, activeAbortControllers>>
    /\ UNCHANGED repoVars
    /\ UNCHANGED <<chatVars, jobSvcVars, memVars, storeVars, titleVars, departVars>>

\* the rest of the skill path: throw on success=false (the failure path of the
\* inner catch), else disable the job if asked, complete the run; the interval is
\* cleared and the controller forgotten either way
SkillFinish(s) ==
    /\ pc[s] = "result"
    /\ jobs' = IF result[s].success /\ result[s].disableJob
               THEN updateJob(jobs, job[s].id, "enabled", FALSE)
               ELSE jobs
    /\ job_runs' = skillEnds(job_runs, claimed[s].id, result[s])
    /\ notifications' =
            IF ~result[s].success
                /\ RetriesExhausted(claimed[s].retry_count, job[s].max_retries)
            THEN Append(notifications, [title |-> "Job failed", job |-> job[s].id])
            ELSE notifications
    /\ lockRefresh' = ClearRefresh(claimed[s].id)
    /\ activeAbortControllers' = activeAbortControllers \ {claimed[s].id}
    /\ result' = [result EXCEPT ![s] = NoResult]
    /\ EndTick(s)
    /\ UNCHANGED <<now, threads, tickTimer>>
    /\ UNCHANGED repoVars
    /\ UNCHANGED <<chatVars, jobSvcVars, memVars, storeVars, titleVars, departVars>>

NextSkill ==
    \/ Alive
    \/ \E s \in Slots : SkillExecute(s)
    \/ \E s \in Slots : SkillFinish(s)

SpecSkill == Init /\ [][NextSkill]_vars

\* ---- the scheduler while jobs are deleted ------------------------------------
\* DELETE /jobs/:id or the delete_job tool: JobService.delete, JobRepository.softDelete
JobSoftDelete(j) ==
    /\ ~jobs[j].deleted
    /\ jobs' = [jobs EXCEPT ![j].deleted = TRUE]
    /\ UNCHANGED <<now, job_runs, threads, notifications, tickTimer, pc, dueJobs, cur,
                   created, claimed, job, thread, lockRefresh, activeAbortControllers>>
    /\ UNCHANGED repoVars
    /\ UNCHANGED <<chatVars, jobSvcVars, memVars, storeVars, skillVars, titleVars, departVars>>

NextDelete == Alive \/ \E j \in Jobs : JobSoftDelete(j)

SpecDelete == InitOneShot /\ [][NextDelete]_vars

\* ---- the job_runs repository under concurrent callers ------------------------
\* Each caller issues createIdempotent and claimPending statements; a statement
\* of one caller interleaves with the statements of the others between its
\* subquery and its write, as under READ COMMITTED.

RECURSIVE TotalCalls(_)
TotalCalls(S) ==
    IF S = {} THEN 0
    ELSE LET c == CHOOSE x \in S : TRUE IN calls[c] + TotalCalls(S \ {c})

\* createIdempotent, part 1: the statement takes its snapshot and evaluates NOT EXISTS
CreateCheck(c, j, t) ==
    /\ cpc[c] = "idle"
    /\ TotalCalls(Callers) < MaxCalls
    /\ calls' = [calls EXCEPT ![c] = @ + 1]
    /\ carg' = [carg EXCEPT ![c] = [op |-> "create", job_id |-> j, ts |-> t,
                                    notRunning |-> NoRunningRun(job_runs, j), sel |-> 0]]
    /\ cpc' = [cpc EXCEPT ![c] = "insert"]
    /\ cres' = [cres EXCEPT ![c] = "none"]
    /\ UNCHANGED <<job_runs, rowLock>>
    /\ UNCHANGED schedVars
    /\ UNCHANGED <<chatVars, jobSvcVars, memVars, storeVars, skillVars, titleVars, departVars>>

\* createIdempotent, part 2: INSERT ... ON CONFLICT DO NOTHING; numAffectedRows > 0
CreateInsert(c) ==
    /\ cpc[c] = "insert"
    /\ Len(job_runs) < MaxRuns
    /\ job_runs' = InsertRun(job_runs, carg[c].job_id, carg[c].ts, carg[c].notRunning)
    /\ cres' = [cres EXCEPT ![c] = IF Len(job_runs') > Len(job_runs) THEN "true" ELSE "false"]
    /\ cpc' = [cpc EXCEPT ![c] = "idle"]
    /\ UNCHANGED <<carg, rowLock, calls>>
    /\ UNCHANGED schedVars
    /\ UNCHANGED <<chatVars, jobSvcVars, memVars, storeVars, skillVars, titleVars, departVars>>

\* claimPending, part 1: the subquery selects and locks a row, or finds none
ClaimSelect(c) ==
    /\ cpc[c] = "idle"
    /\ TotalCalls(Callers) < MaxCalls
    /\ calls' = [calls EXCEPT ![c] = @ + 1]
    /\ LET id == SelectPending(job_runs, rowLock) IN
        /\ carg' = [carg EXCEPT ![c] = [op |-> "claim", job_id |-> 0, ts |-> 0,
                                        notRunning |-> FALSE, sel |-> id]]
        /\ IF id = 0
           THEN /\ cres' = [cres EXCEPT ![c] = "null"]
                /\ UNCHANGED <<cpc, rowLock>>
           ELSE /\ rowLock' = [rowLock EXCEPT ![id] = c]
                /\ cpc' = [cpc EXCEPT ![c] = "update"]
                /\ cres' = [cres EXCEPT ![c] = "none"]
    /\ UNCHANGED job_runs
    /\ UNCHANGED schedVars
    /\ UNCHANGED <<chatVars, jobSvcVars, memVars, storeVars, skillVars, titleVars, departVars>>

\* claimPending, part 2: the UPDATE of the selected row, RETURNING *, commit
ClaimUpdate(c) ==
    /\ cpc[c] = "update"
    /\ job_runs' = MarkRunning(job_runs, carg[c].sel, now)
    /\ rowLock' = [rowLock EXCEPT ![carg[c].sel] = 0]
    /\ cres' = [cres EXCEPT ![c] = "row"]
    /\ cpc' = [cpc EXCEPT ![c] = "idle"]
    /\ UNCHANGED <<carg, calls>>
    /\ UNCHANGED schedVars
    /\ UNCHANGED <<chatVars, jobSvcVars, memVars, storeVars, skillVars, titleVars, departVars>>

NextRepo ==
    \/ \E c \in Callers, j \in Jobs, t \in Instants : CreateCheck(c, j, t)
    \/ \E c \in Callers : CreateInsert(c)
    \/ \E c \in Callers : ClaimSelect(c)
    \/ \E c \in Callers : ClaimUpdate(c)

SpecRepo == Init /\ [][NextRepo]_vars

\* ---- the chat path: POST /chat/completions and AgentService.runStream -------
\* usage of a finished run: a record or null
Usages == {NULL, 1}

\* the events the stream generator yields; every other event of the LM run is
\* skipped by the generator and changes nothing
StreamEvent(type, content) == [type |-> type, content |-> content]

\* the events the LM run may produce next: a tool's output item follows its call
\* item; the k-th text delta of a run carries the text k
NextEvents(y) ==
    IF y # <<>> /\ y[Len(y)].type = "tool_call"
    THEN {StreamEvent("tool_result", 0)}
    ELSE {StreamEvent("delta", Len(SelectSeq(y, LAMBDA e : e.type = "delta")) + 1),
          StreamEvent("tool_call", 0)}

\* content of the system message: the base instructions, then the memory block
BASE_INSTRUCTIONS == 0
Memories == 1

Message(t, role, content, u) ==
    [thread_id |-> t, role |-> role, content |-> content, usage |-> u]

addMessage_Lost(msgs, m) == msgs

\* MessageRepository.create: one INSERT, the id is the next of the sequence
addMessage(msgs, m) == Append(msgs, m)

\* MessageRepository.findByThreadId: the thread's rows by ascending id
getMessages(msgs, t) == SelectSeq(msgs, LAMBDA m : m.thread_id = t)

NonSystem(list) == SelectSeq(list, LAMBDA m : m.role # "system")

IsFirst_AnyCount(list) == Len(NonSystem(list)) >= 1

\* isFirstMessage of runStream
IsFirst(list) == Len(NonSystem(list)) = 1

\* toInputItems: system, user and assistant rows in the order of the list
toInputItems(list) ==
    [i \in 1..Len(SelectSeq(list, LAMBDA m : m.role \in {"system", "user", "assistant"})) |->
        LET m == SelectSeq(list, LAMBDA x : x.role \in {"system", "user", "assistant"})[i]
        IN [role |-> m.role, content |-> m.content]]

sseEvent_Untyped(e) == [event |-> "delta", data |-> e.content]

\* sseEvent of the route for one event of the stream
sseEvent(e) == [event |-> e.type, data |-> e.content]

\* what the route and the service leave alone
ChatFrame == UNCHANGED <<now, jobs, job_runs, schedVars, repoVars, jobSvcVars, memVars, storeVars, skillVars, titleVars, departVars>>

\* the route refuses the request: invalid body, or a thread_id that is not found
RouteReject(r) ==
    /\ rpc[r] = "idle"
    /\ status[r] = 0
    /\ \E code \in {400, 404} :
        /\ code = 404 => \E t \in ChatThreads : t \notin chatThreads
        /\ status' = [status EXCEPT ![r] = code]
    /\ UNCHANGED <<chatThreads, messages, rpc, rthread, loaded, isFirstMessage,
                   inputItems, yielded, fullText, sse, resolved, published, usage, wrote>>
    /\ ChatFrame

\* the route accepts the request: the thread is found or created, the head and
\* the thread event are written, runStream is called
RouteAccept(r) ==
    /\ rpc[r] = "idle"
    /\ status[r] = 0
    /\ \E t \in ChatThreads :
        /\ t \in chatThreads \/ t = Cardinality(chatThreads) + 1
        /\ chatThreads' = chatThreads \cup {t}
        /\ rthread' = [rthread EXCEPT ![r] = t]
        /\ sse' = [sse EXCEPT ![r] = <<[event |-> "thread", data |-> t]>>]
    /\ status' = [status EXCEPT ![r] = 200]
    /\ rpc' = [rpc EXCEPT ![r] = "addUser"]
    /\ UNCHANGED <<messages, loaded, isFirstMessage, inputItems, yielded, fullText,
                   resolved, published, usage, wrote>>
    /\ ChatFrame

\* runStream: the user message is persisted
AddUser(r) ==
    /\ rpc[r] = "addUser"
    /\ messages' = addMessage(messages, Message(rthread[r], "user", <<0>>, NULL))
    /\ wrote' = [wrote EXCEPT ![r] = @ \cup {Len(messages')}]
    /\ rpc' = [rpc EXCEPT ![r] = "getMessages"]
    /\ UNCHANGED <<chatThreads, rthread, status, loaded, isFirstMessage, inputItems,
                   yielded, fullText, sse, resolved, published, usage>>
    /\ ChatFrame

\* runStream: the thread's messages are read and the first exchange is detected
GetMessages(r) ==
    /\ rpc[r] = "getMessages"
    /\ loaded' = [loaded EXCEPT ![r] = getMessages(messages, rthread[r])]
    /\ isFirstMessage' = [isFirstMessage EXCEPT ![r] = IsFirst(loaded'[r])]
    /\ rpc' = [rpc EXCEPT ![r] = IF isFirstMessage'[r] THEN "assemble" ELSE "run"]
    /\ UNCHANGED <<chatThreads, messages, rthread, status, inputItems, yielded,
                   fullText, sse, resolved, published, usage, wrote>>
    /\ ChatFrame

\* assembleSystemPrompt: memory recall, then the system message with the
\* memories, or with the base instructions alone when the recall failed
AssembleSystemPrompt(r) ==
    /\ rpc[r] = "assemble"
    /\ \E recalled \in BOOLEAN :
        messages' = addMessage(messages,
            Message(rthread[r], "system",
                    IF recalled THEN <<BASE_INSTRUCTIONS, Memories>> ELSE <<BASE_INSTRUCTIONS>>, NULL))
    /\ wrote' = [wrote EXCEPT ![r] = @ \cup {Len(messages')}]
    /\ rpc' = [rpc EXCEPT ![r] = "refetch"]
    /\ UNCHANGED <<chatThreads, rthread, status, loaded, isFirstMessage, inputItems,
                   yielded, fullText, sse, resolved, published, usage>>
    /\ ChatFrame

\* runStream: the messages are read again after the system prompt was written
Refetch(r) ==
    /\ rpc[r] = "refetch"
    /\ loaded' = [loaded EXCEPT ![r] = getMessages(messages, rthread[r])]
    /\ rpc' = [rpc EXCEPT ![r] = "run"]
    /\ UNCHANGED <<chatThreads, messages, rthread, status, isFirstMessage, inputItems,
                   yielded, fullText, sse, resolved, published, usage, wrote>>
    /\ ChatFrame

\* runStream: the LM run is started on the input items and the stream returned
RunAgent(r) ==
    /\ rpc[r] = "run"
    /\ inputItems' = [inputItems EXCEPT ![r] = toInputItems(loaded[r])]
    /\ rpc' = [rpc EXCEPT ![r] = "stream"]
    /\ loaded' = [loaded EXCEPT ![r] = <<>>]
    /\ isFirstMessage' = [isFirstMessage EXCEPT ![r] = FALSE]
    /\ UNCHANGED <<chatThreads, messages, rthread, status, yielded, fullText, sse,
                   resolved, published, usage, wrote>>
    /\ ChatFrame

\* the generator yields one event and the route writes it to the response
StreamYield(r) ==
    /\ rpc[r] = "stream"
    /\ Len(yielded[r]) < MaxEvents
    /\ \E e \in NextEvents(yielded[r]) :
        /\ yielded' = [yielded EXCEPT ![r] = Append(@, e)]
        /\ fullText' = [fullText EXCEPT ![r] =
                            IF e.type = "delta" THEN Append(@, e.content) ELSE @]
        /\ sse' = [sse EXCEPT ![r] = Append(@, sseEvent(e))]
    /\ UNCHANGED <<chatThreads, messages, rpc, rthread, status, loaded, isFirstMessage,
                   inputItems, resolved, published, usage, wrote>>
    /\ ChatFrame

\* the LM stream ends, result.completed resolves and the usage is read
StreamComplete(r) ==
    /\ rpc[r] = "stream"
    /\ StreamEvent("tool_result", 0) \notin NextEvents(yielded[r])
    /\ \E u \in Usages : usage' = [usage EXCEPT ![r] = u]
    /\ rpc' = [rpc EXCEPT ![r] = "persist"]
    /\ inputItems' = [inputItems EXCEPT ![r] = <<>>]
    /\ UNCHANGED <<chatThreads, messages, rthread, status, loaded, isFirstMessage,
                   yielded, fullText, sse, resolved, published, wrote>>
    /\ ChatFrame

\* the generator persists the assistant message with fullText and the usage
StreamPersist(r) ==
    /\ rpc[r] = "persist"
    /\ messages' = addMessage(messages,
                        Message(rthread[r], "assistant", fullText[r], usage[r]))
    /\ wrote' = [wrote EXCEPT ![r] = @ \cup {Len(messages')}]
    /\ rpc' = [rpc EXCEPT ![r] = "resolve"]
    /\ UNCHANGED <<chatThreads, rthread, status, loaded, isFirstMessage, inputItems,
                   yielded, fullText, sse, resolved, published, usage>>
    /\ ChatFrame

usageResolve_Dropped(res, u) == res

\* usageResolve of the usage promise: one more resolution, with the value u
usageResolve(res, u) == Append(res, u)

emit_Unheard(events, threadId) == events

\* eventBus.emit('response:complete', { threadId }): one more event
emit(events, threadId) == Append(events, threadId)

\* after the insert the generator emits response:complete, calls usageResolve(usage)
\* and returns
StreamResolve(r) ==
    /\ rpc[r] = "resolve"
    /\ published' = [published EXCEPT ![r] = emit(@, rthread[r])]
    /\ resolved' = [resolved EXCEPT ![r] = usageResolve(@, usage[r])]
    /\ rpc' = [rpc EXCEPT ![r] = "awaitUsage"]
    /\ UNCHANGED <<chatThreads, messages, rthread, status, loaded, isFirstMessage,
                   inputItems, yielded, fullText, sse, usage, wrote>>
    /\ ChatFrame

\* the route's loop is over: it awaits the usage, writes done and ends the response
RouteDone(r) ==
    /\ rpc[r] = "awaitUsage"
    /\ resolved[r] # <<>>
    /\ sse' = [sse EXCEPT ![r] = Append(@, [event |-> "done", data |-> resolved[r][1]])]
    /\ rpc' = [rpc EXCEPT ![r] = "closed"]
    /\ usage' = [usage EXCEPT ![r] = NULL]
    /\ UNCHANGED <<chatThreads, messages, rthread, status, loaded, isFirstMessage,
                   inputItems, yielded, fullText, resolved, published, wrote>>
    /\ ChatFrame

\* the route's catch block: the error event is written and the response ended
RouteCatch(r) ==
    /\ sse' = [sse EXCEPT ![r] = Append(@, [event |-> "error", data |-> 0])]
    /\ rpc' = [rpc EXCEPT ![r] = "closed"]

\* what the generator persists when the LM stream throws: nothing, the exception
\* leaves the for await loop and the generator
OnStreamError(msgs, r) == msgs

\* the LM stream throws while the generator is consuming it
StreamThrow(r) ==
    /\ rpc[r] = "stream"
    /\ messages' = OnStreamError(messages, r)
    /\ wrote' = [wrote EXCEPT ![r] = @ \cup (1..Len(messages') \ 1..Len(messages))]
    /\ RouteCatch(r)
    /\ inputItems' = [inputItems EXCEPT ![r] = <<>>]
    /\ UNCHANGED <<chatThreads, rthread, status, loaded, isFirstMessage, yielded,
                   fullText, resolved, published, usage>>
    /\ ChatFrame

\* a statement of runStream or of the generator other than the LM stream throws
\* before it has had an effect
RunStreamThrow(r) ==
    /\ rpc[r] \in {"addUser", "getMessages", "assemble", "refetch", "run", "persist"}
    /\ RouteCatch(r)
    /\ loaded' = [loaded EXCEPT ![r] = <<>>]
    /\ isFirstMessage' = [isFirstMessage EXCEPT ![r] = FALSE]
    /\ inputItems' = [inputItems EXCEPT ![r] = <<>>]
    /\ UNCHANGED <<chatThreads, messages, rthread, status, yielded, fullText, resolved, published,
                   usage, wrote>>
    /\ ChatFrame

PersistOnReturn(msgs, r) == addMessage(msgs, Message(rthread[r], "assistant", fullText[r], NULL))

\* what the generator persists when its consumer calls return(): nothing, the
\* generator has no finally block and ends at the yield it is suspended at
OnReturn(msgs, r) == msgs

\* the consumer stops iterating the stream before it is drained
StreamReturn(r) ==
    /\ rpc[r] = "stream"
    /\ messages' = OnReturn(messages, r)
    /\ wrote' = [wrote EXCEPT ![r] = @ \cup (1..Len(messages') \ 1..Len(messages))]
    /\ rpc' = [rpc EXCEPT ![r] = "cancelled"]
    /\ inputItems' = [inputItems EXCEPT ![r] = <<>>]
    /\ UNCHANGED <<chatThreads, rthread, status, loaded, isFirstMessage, yielded,
                   fullText, sse, resolved, published, usage>>
    /\ ChatFrame

NextChat ==
    \/ \E r \in Reqs : RouteReject(r)
    \/ \E r \in Reqs : RouteAccept(r)
    \/ \E r \in Reqs : AddUser(r)
    \/ \E r \in Reqs : GetMessages(r)
    \/ \E r \in Reqs : AssembleSystemPrompt(r)
    \/ \E r \in Reqs : Refetch(r)
    \/ \E r \in Reqs : RunAgent(r)
    \/ \E r \in Reqs : StreamYield(r)
    \/ \E r \in Reqs : StreamComplete(r)
    \/ \E r \in Reqs : StreamPersist(r)
    \/ \E r \in Reqs : StreamResolve(r)
    \/ \E r \in Reqs : RouteDone(r)
    \/ \E r \in Reqs : StreamThrow(r)
    \/ \E r \in Reqs : RunStreamThrow(r)
    \/ \E r \in Reqs : StreamReturn(r)

\* the scheduler at rest, one set of job rows
InitQuiet ==
    /\ jobs = CHOOSE js \in InitJobs : TRUE
    /\ job_runs = <<>>
    /\ InitSched
    /\ InitRepo
    /\ InitChat
    /\ InitJobSvc
    /\ InitMem
    /\ InitSkill
    /\ InitStore
    /\ InitTitle
    /\ InitDepart

SpecChat == InitQuiet /\ [][NextChat]_vars

\* ---- JobService and its callers ----------------------------------------------
\* a field the caller left out
undefined == -2

\* payload values: a prompt text, a registered skill, an unregistered one, a config
SomePrompt == 1
ValidSkill == 1
UnknownSkill == 2
SomeConfig == 1

PayloadInput(p, sn, sc) == [prompt |-> p, skill_name |-> sn, skill_config |-> sc]

\* bodies accepted by createBodySchema of POST /jobs: a prompt, no skill fields
RestCreateInputs == {PayloadInput(SomePrompt, undefined, undefined)}

\* bodies accepted by updateBodySchema of PUT /jobs/:id: a prompt or none
RestUpdateInputs == {PayloadInput(p, undefined, undefined) : p \in {undefined, SomePrompt}}

\* arguments create_job and update_job hand to JobService: null is passed as undefined
ToolInputs ==
    {PayloadInput(p, sn, sc) : p \in {undefined, SomePrompt},
                               sn \in {undefined, ValidSkill, UnknownSkill},
                               sc \in {undefined, SomeConfig}}

\* validateSkillName
validSkillNames == {ValidSkill}

OrNull(v) == IF v = undefined THEN NULL ELSE v

FreeIds(table) == {j \in Jobs : ~table[j].exists}

\* what JobService.create checks of the payload: the skill name, when given
CreateAccepts(in) == in.skill_name # undefined => in.skill_name \in validSkillNames

\* JobService.create and JobRepository.create: the row inserted for an accepted input
createJob(table, in) ==
    IF ~CreateAccepts(in) \/ FreeIds(table) = {}
    THEN table
    ELSE [table EXCEPT ![MinOf(FreeIds(table))] =
            [prompt |-> OrNull(in.prompt), skill_name |-> OrNull(in.skill_name),
             skill_config |-> OrNull(in.skill_config), exists |-> TRUE, deleted |-> FALSE]]

\* JobService.update and JobRepository.update: the fields given replace the columns
updateJobPayload(table, id, in) ==
    IF (in.skill_name # undefined /\ in.skill_name \notin validSkillNames)
        \/ ~table[id].exists \/ table[id].deleted
    THEN table
    ELSE [table EXCEPT
            ![id].prompt = IF in.prompt # undefined THEN in.prompt ELSE @,
            ![id].skill_name = IF in.skill_name # undefined THEN in.skill_name ELSE @,
            ![id].skill_config = IF in.skill_config # undefined THEN in.skill_config ELSE @]

JobSvcFrame == UNCHANGED <<now, jobs, job_runs, schedVars, repoVars, chatVars, memVars, storeVars, skillVars, titleVars, departVars>>

\* POST /jobs
RestCreate ==
    /\ \E in \in RestCreateInputs : jobTable' = createJob(jobTable, in)
    /\ JobSvcFrame

\* PUT /jobs/:id
RestUpdate ==
    /\ \E id \in Jobs, in \in RestUpdateInputs : jobTable' = updateJobPayload(jobTable, id, in)
    /\ JobSvcFrame

\* the create_job tool
ToolCreate ==
    /\ \E in \in ToolInputs : jobTable' = createJob(jobTable, in)
    /\ JobSvcFrame

\* the update_job tool
ToolUpdate ==
    /\ \E id \in Jobs, in \in ToolInputs : jobTable' = updateJobPayload(jobTable, id, in)
    /\ JobSvcFrame

\* DELETE /jobs/:id and the delete_job tool: JobService.delete, a soft delete
DeleteJob ==
    /\ \E id \in Jobs :
        /\ jobTable[id].exists /\ ~jobTable[id].deleted
        /\ jobTable' = [jobTable EXCEPT ![id].deleted = TRUE]
    /\ JobSvcFrame

NextJobSvc == RestCreate \/ RestUpdate \/ ToolCreate \/ ToolUpdate \/ DeleteJob

SpecJobSvc == InitQuiet /\ [][NextJobSvc]_vars

\* ---- MemoryService, its repository and its callers ---------------------------
Contents == {1, 2}

\* EmbeddingService.embed: the vector the embedding model gives for a text
embed(content) == content + 10

LiveEntry(e) == e.exists /\ e.deleted_at = NULL

FreeMem(entries) == {i \in MemIds : ~entries[i].exists}

\* MemoryRepository.create: a new row with the content and the embedding
createEntry(entries, content, embedding) ==
    [entries EXCEPT ![MinOf(FreeMem(entries))] =
        [exists |-> TRUE, content |-> content, embedding |-> embedding, deleted_at |-> NULL]]

updateEntry_ContentOnly(entries, id, content, embedding) ==
    IF LiveEntry(entries[id])
    THEN [entries EXCEPT ![id].content = content]
    ELSE entries

\* MemoryRepository.update: content and embedding of the live row id, in one UPDATE
updateEntry(entries, id, content, embedding) ==
    IF LiveEntry(entries[id])
    THEN [entries EXCEPT ![id].content = content, ![id].embedding = embedding]
    ELSE entries

\* what MemoryRepository.update returns: the row, or undefined when none matched
updateReturns(entries, id) == IF LiveEntry(entries[id]) THEN "row" ELSE "undefined"

\* MemoryRepository.softDelete
softDeleteEntry(entries, id, t) ==
    IF LiveEntry(entries[id])
    THEN [entries EXCEPT ![id].deleted_at = t]
    ELSE entries

\* creates that were called and have not inserted yet
PendingCreates == {c \in MemCallers : mpc[c] = "write" /\ mop[c].op = "remember" /\ mop[c].id = 0}

MemFrame ==
    UNCHANGED <<now, jobs, job_runs, schedVars, repoVars, chatVars, jobSvcVars, storeVars,
                skillVars, titleVars, departVars>>

\* the string the remember tool returns after memoryService.remember resolved
rememberSaid(replaceId, ret) == IF replaceId # 0 THEN "updated" ELSE "remembered"

\* the remember tool is invoked; MemoryService.remember embeds the content, which
\* may throw: the tool has no catch block and rejects
RememberCall(c) ==
    /\ mpc[c] = "idle"
    /\ \E content \in Contents, replaceId \in {0} \cup MemIds, embedded \in BOOLEAN :
        /\ replaceId = 0 => Cardinality(PendingCreates) < Cardinality(FreeMem(memory_entries))
        /\ IF embedded
           THEN /\ mpc' = [mpc EXCEPT ![c] = "write"]
                /\ mop' = [mop EXCEPT ![c] = [op |-> "remember", content |-> content,
                                              id |-> replaceId, embedding |-> embed(content)]]
                /\ mout' = [mout EXCEPT ![c] = NoMemOut]
                /\ UNCHANGED toolOut
           ELSE /\ mout' = [mout EXCEPT ![c] = [ret |-> "threw", said |-> "threw"]]
                /\ toolOut' = [tool |-> "remember", out |-> "threw"]
                /\ UNCHANGED <<mpc, mop>>
    /\ UNCHANGED memory_entries
    /\ MemFrame

\* MemoryService.remember writes: update of replace_id, or create; the tool returns
RememberWrite(c) ==
    /\ mpc[c] = "write"
    /\ mop[c].op = "remember"
    /\ IF mop[c].id # 0
       THEN /\ memory_entries' = updateEntry(memory_entries, mop[c].id, mop[c].content,
                                             mop[c].embedding)
            /\ mout' = [mout EXCEPT ![c] =
                    [ret |-> updateReturns(memory_entries, mop[c].id),
                     said |-> rememberSaid(mop[c].id, updateReturns(memory_entries, mop[c].id))]]
       ELSE /\ memory_entries' = createEntry(memory_entries, mop[c].content, mop[c].embedding)
            /\ mout' = [mout EXCEPT ![c] = [ret |-> "row", said |-> rememberSaid(0, "row")]]
    /\ toolOut' = [tool |-> "remember", out |-> "string"]
    /\ mpc' = [mpc EXCEPT ![c] = "idle"]
    /\ mop' = [mop EXCEPT ![c] = NoMemOp]
    /\ MemFrame

\* PUT /memory/:id calls MemoryService.update, which embeds the content
UpdateCall(c) ==
    /\ mpc[c] = "idle"
    /\ \E content \in Contents, id \in MemIds, embedded \in BOOLEAN :
        IF embedded
        THEN /\ mpc' = [mpc EXCEPT ![c] = "write"]
             /\ mop' = [mop EXCEPT ![c] = [op |-> "update", content |-> content,
                                           id |-> id, embedding |-> embed(content)]]
             /\ mout' = [mout EXCEPT ![c] = NoMemOut]
        ELSE /\ mout' = [mout EXCEPT ![c] = [ret |-> "threw", said |-> "500"]]
             /\ UNCHANGED <<mpc, mop>>
    /\ UNCHANGED <<memory_entries, toolOut>>
    /\ MemFrame

\* MemoryService.update writes and the route answers the row or 404
UpdateWrite(c) ==
    /\ mpc[c] = "write"
    /\ mop[c].op = "update"
    /\ memory_entries' = updateEntry(memory_entries, mop[c].id, mop[c].content, mop[c].embedding)
    /\ mout' = [mout EXCEPT ![c] =
            [ret |-> updateReturns(memory_entries, mop[c].id),
             said |-> IF updateReturns(memory_entries, mop[c].id) = "row" THEN "200" ELSE "404"]]
    /\ mpc' = [mpc EXCEPT ![c] = "idle"]
    /\ mop' = [mop EXCEPT ![c] = NoMemOp]
    /\ UNCHANGED toolOut
    /\ MemFrame

\* DELETE /memory/:id: MemoryService.delete
MemoryDelete(c) ==
    /\ mpc[c] = "idle"
    /\ \E id \in MemIds :
        /\ memory_entries' = softDeleteEntry(memory_entries, id, now)
        /\ mout' = [mout EXCEPT ![c] =
                [ret |-> updateReturns(memory_entries, id),
                 said |-> IF LiveEntry(memory_entries[id]) THEN "200" ELSE "404"]]
    /\ UNCHANGED <<mpc, mop, toolOut>>
    /\ MemFrame

\* ---- the tools handed to the LM ----------------------------------------------
Tools == {"remember", "recall", "fetch_url", "directions", "notify",
          "list_jobs", "create_job", "update_job", "delete_job", "list_skills"}

\* the execute function of each tool, by its try/catch structure: what the call
\* comes to when the service (or fetch) it awaits rejects
execute(tool, serviceFails) ==
    CASE tool = "remember"    -> IF serviceFails THEN "threw" ELSE "string"
      [] tool = "recall"      -> IF serviceFails THEN "threw" ELSE "string"
      [] tool = "fetch_url"   -> "string"
      [] tool = "directions"  -> "string"
      [] tool = "notify"      -> "string"
      [] tool = "list_jobs"   -> IF serviceFails THEN "threw" ELSE "string"
      [] tool = "create_job"  -> "string"
      [] tool = "update_job"  -> "string"
      [] tool = "delete_job"  -> IF serviceFails THEN "threw" ELSE "string"
      [] tool = "list_skills" -> "string"

\* the LM calls a tool other than remember (which RememberCall/RememberWrite model)
ToolInvoke ==
    /\ \E tool \in Tools \ {"remember"}, serviceFails \in BOOLEAN :
        /\ tool = "list_skills" => ~serviceFails
        /\ toolOut' = [tool |-> tool, out |-> execute(tool, serviceFails)]
    /\ UNCHANGED <<memory_entries, mpc, mop, mout>>
    /\ MemFrame

NextMemory ==
    \/ \E c \in MemCallers : RememberCall(c)
    \/ \E c \in MemCallers : RememberWrite(c)
    \/ \E c \in MemCallers : UpdateCall(c)
    \/ \E c \in MemCallers : UpdateWrite(c)
    \/ \E c \in MemCallers : MemoryDelete(c)
    \/ ToolInvoke

SpecMemory == InitQuiet /\ [][NextMemory]_vars

\* ---- the repositories and soft delete -----------------------------------------
Values == {1, 2}

Live(r) == r.exists /\ r.deleted_at = NULL

\* create: INSERT of a new row
insertRow(rs, v) ==
    [rs EXCEPT ![MinOf({i \in RowIds : ~rs[i].exists})] =
        [exists |-> TRUE, deleted_at |-> NULL, v |-> v]]

\* update: UPDATE ... WHERE id = :id AND deleted_at IS NULL
updateRow(rs, id, v) == IF Live(rs[id]) THEN [rs EXCEPT ![id].v = v] ELSE rs

softDelete_Restamps(rs, id, t) ==
    IF rs[id].exists THEN [rs EXCEPT ![id].deleted_at = t] ELSE rs

\* softDelete of the four repositories:
\* UPDATE ... SET deleted_at = now() WHERE id = :id AND deleted_at IS NULL
softDelete(rs, id, t) ==
    IF Live(rs[id]) THEN [rs EXCEPT ![id].deleted_at = t] ELSE rs

\* RETURNING * with executeTakeFirst: the row the statement matched, or undefined
returning(rs, id) == IF Live(rs[id]) THEN "row" ELSE "undefined"

\* findById: WHERE id = :id AND deleted_at IS NULL
findById(rs, id) == IF Live(rs[id]) THEN {id} ELSE {}

\* findAll, findByThreadId, similaritySearch: WHERE deleted_at IS NULL
findAll(rs) == {i \in RowIds : Live(rs[i])}

\* repositories that have an update statement
Updatable == {"threads", "memory_entries", "jobs"}

StoreFrame ==
    UNCHANGED <<jobs, job_runs, threads, notifications, tickTimer, pc, dueJobs, cur, created,
                claimed, job, thread, lockRefresh, activeAbortControllers,
                repoVars, chatVars, jobSvcVars, memVars, skillVars, repo, titleVars, departVars>>

StoreCreate ==
    /\ \E i \in RowIds : ~rows[i].exists
    /\ \E v \in Values :
        /\ rows' = insertRow(rows, v)
        /\ sres' = [op |-> "create", id |-> MinOf({i \in RowIds : ~rows[i].exists}),
                    out |-> "row", ids |-> {}]
    /\ UNCHANGED now
    /\ StoreFrame

StoreUpdate ==
    /\ repo \in Updatable
    /\ \E id \in RowIds, v \in Values :
        /\ rows' = updateRow(rows, id, v)
        /\ sres' = [op |-> "update", id |-> id,
                    out |-> IF repo = "threads" THEN "void" ELSE returning(rows, id),
                    ids |-> {}]
    /\ UNCHANGED now
    /\ StoreFrame

StoreSoftDelete ==
    /\ \E id \in RowIds :
        /\ rows' = softDelete(rows, id, now)
        /\ sres' = [op |-> "softDelete", id |-> id, out |-> returning(rows, id), ids |-> {}]
    /\ UNCHANGED now
    /\ StoreFrame

StoreFindById ==
    /\ \E id \in RowIds :
        sres' = [op |-> "findById", id |-> id, out |-> returning(rows, id),
                 ids |-> findById(rows, id)]
    /\ UNCHANGED <<now, rows>>
    /\ StoreFrame

StoreFindAll ==
    /\ sres' = [op |-> "findAll", id |-> 0, out |-> "rows", ids |-> findAll(rows)]
    /\ UNCHANGED <<now, rows>>
    /\ StoreFrame

\* the database clock moves on
StoreClock ==
    /\ now < MaxStamp
    /\ now' = now + 1
    /\ UNCHANGED <<rows, sres>>
    /\ StoreFrame

NextStore ==
    \/ StoreCreate
    \/ StoreUpdate
    \/ StoreSoftDelete
    \/ StoreFindById
    \/ StoreFindAll
    \/ StoreClock

\* any one of the four repositories over its empty table
InitStores ==
    /\ jobs = CHOOSE js \in InitJobs : TRUE
    /\ job_runs = <<>>
    /\ InitSched
    /\ InitRepo
    /\ InitChat
    /\ InitJobSvc
    /\ InitMem
    /\ InitSkill
    /\ InitTitle
    /\ InitDepart
    /\ \E t \in Tables : InitStoreOf(t)

SpecStore == InitStores /\ [][NextStore]_vars

\* ---- the thread-title handler ------------------------------------------------
\* AgentService.runStream as the handler sees it: the messages it inserts and the
\* event it emits. threadTitle holds <<>> while the column is NULL.
TitleFrame ==
    UNCHANGED <<now, jobs, job_runs, schedVars, repoVars, chatVars, jobSvcVars, memVars,
                storeVars, skillVars, departVars>>

NonSystemRoles(list) == SelectSeq(list, LAMBDA r : r # "system")

HasRole(list, role) == \E i \in 1..Len(list) : list[i] = role

\* runStream up to the LM run: the user message and, on the first message of the
\* thread, the system prompt when its assembly succeeds
RunAddUser(t) ==
    /\ Len(tmsgs[t]) + openRuns[t] + 3 <= MaxThreadMsgs
    /\ \E assembled \in BOOLEAN :
        LET withUser == Append(tmsgs[t], "user")
            first == Len(NonSystemRoles(withUser)) = 1
        IN tmsgs' = [tmsgs EXCEPT ![t] = IF first /\ assembled
                                          THEN Append(withUser, "system")
                                          ELSE withUser]
    /\ openRuns' = [openRuns EXCEPT ![t] = @ + 1]
    /\ UNCHANGED <<threadTitle, titleSets, updatedSse, hpc, hthread, htitle, hout>>
    /\ TitleFrame

\* the end of a drained stream: the assistant message is inserted and
\* response:complete is emitted, which starts the listener up to its first await
RunPersist(t) ==
    /\ openRuns[t] > 0
    /\ \E h \in Handlers :
        /\ hpc[h] = "idle"
        /\ hpc' = [hpc EXCEPT ![h] = "getMessages"]
        /\ hthread' = [hthread EXCEPT ![h] = t]
        /\ hout' = [hout EXCEPT ![h] = "none"]
    /\ tmsgs' = [tmsgs EXCEPT ![t] = Append(@, "assistant")]
    /\ openRuns' = [openRuns EXCEPT ![t] = @ - 1]
    /\ UNCHANGED <<threadTitle, titleSets, updatedSse, htitle>>
    /\ TitleFrame

\* a run that fails or is cancelled before its assistant message is inserted
RunEnd(t) ==
    /\ openRuns[t] > 0
    /\ openRuns' = [openRuns EXCEPT ![t] = @ - 1]
    /\ UNCHANGED <<tmsgs, threadTitle, titleSets, updatedSse, hpc, hthread, htitle, hout>>
    /\ TitleFrame

firstExchange_AnyLength(list) ==
    /\ HasRole(NonSystemRoles(list), "user")
    /\ HasRole(NonSystemRoles(list), "assistant")

\* thread-title.ts 25-33: exactly two non-system messages, a user and an assistant one
firstExchange(list) ==
    /\ Len(NonSystemRoles(list)) = 2
    /\ HasRole(NonSystemRoles(list), "user")
    /\ HasRole(NonSystemRoles(list), "assistant")

RECURSIVE trimStart(_)
trimStart(str) ==
    IF str # <<>> /\ Head(str) = " " THEN trimStart(Tail(str)) ELSE str

RECURSIVE trimEnd(_)
trimEnd(str) ==
    IF str # <<>> /\ str[Len(str)] = " " THEN trimEnd(SubSeq(str, 1, Len(str) - 1)) ELSE str

\* String.prototype.trim over a string as the sequence of its characters
trim(str) == trimEnd(trimStart(str))

\* what chat.completions.create resolves with: no content, blanks, a padded title, a title
Completions ==
    {[has |-> FALSE, content |-> <<>>],
     [has |-> TRUE, content |-> <<" ", " ">>],
     [has |-> TRUE, content |-> <<" ", "T", " ">>],
     [has |-> TRUE, content |-> <<"T">>]}

\* completion.choices[0]?.message?.content?.trim(), <<>> standing for undefined too
titleOf(completion) == IF completion.has THEN trim(completion.content) ELSE <<>>

\* the listener's body is one try/catch that logs: its promise always resolves
handlerSettles(threw) == "resolved"

HandlerReturn(h, threw) ==
    /\ hpc' = [hpc EXCEPT ![h] = "idle"]
    /\ htitle' = [htitle EXCEPT ![h] = <<>>]
    /\ hout' = [hout EXCEPT ![h] = handlerSettles(threw)]
    /\ UNCHANGED hthread

\* getMessages resolves or rejects; the first-exchange test follows without an await
HandlerGetMessages(h) ==
    /\ hpc[h] = "getMessages"
    /\ \E ok \in BOOLEAN :
        IF ~ok
        THEN HandlerReturn(h, TRUE)
        ELSE IF firstExchange(tmsgs[hthread[h]])
             THEN /\ hpc' = [hpc EXCEPT ![h] = "completion"]
                  /\ UNCHANGED <<hthread, htitle, hout>>
             ELSE HandlerReturn(h, FALSE)
    /\ UNCHANGED <<tmsgs, openRuns, threadTitle, titleSets, updatedSse>>
    /\ TitleFrame

\* openai.chat.completions.create resolves or rejects; then the title test
HandlerCompletion(h) ==
    /\ hpc[h] = "completion"
    /\ \/ HandlerReturn(h, TRUE)
       \/ \E c \in Completions :
            IF titleOf(c) # <<>>
            THEN /\ hpc' = [hpc EXCEPT ![h] = "updateTitle"]
                 /\ htitle' = [htitle EXCEPT ![h] = titleOf(c)]
                 /\ UNCHANGED <<hthread, hout>>
            ELSE HandlerReturn(h, FALSE)
    /\ UNCHANGED <<tmsgs, openRuns, threadTitle, titleSets, updatedSse>>
    /\ TitleFrame

\* updateTitle resolves, followed at once by the sse emit, or it rejects
HandlerUpdateTitle(h) ==
    /\ hpc[h] = "updateTitle"
    /\ \E ok \in BOOLEAN :
        IF ok
        THEN /\ threadTitle' = [threadTitle EXCEPT ![hthread[h]] = htitle[h]]
             /\ titleSets' = [titleSets EXCEPT ![hthread[h]] = @ + 1]
             /\ updatedSse' = [updatedSse EXCEPT ![hthread[h]] = @ + 1]
             /\ HandlerReturn(h, FALSE)
        ELSE /\ HandlerReturn(h, TRUE)
             /\ UNCHANGED <<threadTitle, titleSets, updatedSse>>
    /\ UNCHANGED <<tmsgs, openRuns>>
    /\ TitleFrame

NextTitle ==
    \/ \E t \in TitleThreads : RunAddUser(t)
    \/ \E t \in TitleThreads : RunPersist(t)
    \/ \E t \in TitleThreads : RunEnd(t)
    \/ \E h \in Handlers : HandlerGetMessages(h)
    \/ \E h \in Handlers : HandlerCompletion(h)
    \/ \E h \in Handlers : HandlerUpdateTitle(h)

SpecTitle == InitQuiet /\ [][NextTitle]_vars

\* ---- DepartureCheckSkill.execute ----------------------------------------------
\* The clock is the time of day in units of half a poll interval; a day has DayLen
\* of them. fetchDirections and notify take no time, abortableSleep takes PollInterval.
DepartFrame ==
    UNCHANGED <<now, jobs, job_runs, schedVars, repoVars, chatVars, jobSvcVars, memVars,
                storeVars, skillVars, titleVars>>

TimesOfDay == 0..(DayLen - 1)

\* durationInTraffic ?? duration, in clock units
Durations == {0, 1, 3}

\* arrivalDate: the arrival time on the day of now, compared with now
pastArrival(tod, arrivalTime) == tod >= arrivalTime

\* leaveBy.getTime() <= now.getTime() + leadMs
leaveNow(tod, arrivalTime, duration) == arrivalTime - duration <= tod + LeadTime

\* whether a clock at tod that advances by d passes the arrival time of its day
Reaches(tod, d, arrivalTime) == \E k \in 1..d : (tod + k) % DayLen = arrivalTime

DepartReturn(res) ==
    /\ dpc' = "done"
    /\ dresult' = res

\* safeParse of skill_config
DepartExecute ==
    /\ dpc = "idle"
    /\ IF dvalid
       THEN dpc' = "loop" /\ UNCHANGED dresult
       ELSE DepartReturn([success |-> FALSE, message |-> "Invalid skill_config",
                          disableJob |-> FALSE])
    /\ UNCHANGED <<dclock, dvalid, aborted, dsent, darrival, dreached>>
    /\ DepartFrame

\* the loop test and the arrival test, up to the await of fetchDirections
DepartLoop ==
    /\ dpc = "loop"
    /\ IF aborted
       THEN DepartReturn([success |-> TRUE, message |-> "Aborted", disableJob |-> FALSE])
       ELSE IF pastArrival(dclock, darrival)
            THEN DepartReturn([success |-> TRUE, message |-> "Past arrival time",
                               disableJob |-> TRUE])
            ELSE dpc' = "fetch" /\ UNCHANGED dresult
    /\ UNCHANGED <<dclock, dvalid, aborted, dsent, darrival, dreached>>
    /\ DepartFrame

\* fetchDirections rejects (caught and logged) or resolves with a duration
DepartFetch ==
    /\ dpc = "fetch"
    /\ \/ dpc' = "sleep"
       \/ \E d \in Durations :
            dpc' = IF leaveNow(dclock, darrival, d) THEN "notify" ELSE "sleep"
    /\ UNCHANGED <<dclock, dvalid, aborted, dresult, dsent, darrival, dreached>>
    /\ DepartFrame

\* notify resolves, whatever the delivery came to, and execute returns
DepartNotify ==
    /\ dpc = "notify"
    /\ dsent' = dsent + 1
    /\ DepartReturn([success |-> TRUE, message |-> "Notification sent", disableJob |-> TRUE])
    /\ UNCHANGED <<dclock, dvalid, aborted, darrival, dreached>>
    /\ DepartFrame

\* abortableSleep: resolves at once on an aborted signal, else when the timer fires
DepartSleep ==
    /\ dpc = "sleep"
    /\ dpc' = "loop"
    /\ IF aborted
       THEN UNCHANGED <<dclock, dreached>>
       ELSE /\ dclock' = (dclock + PollInterval) % DayLen
            /\ dreached' = (dreached \/ Reaches(dclock, PollInterval, darrival))
    /\ UNCHANGED <<dvalid, aborted, dresult, dsent, darrival>>
    /\ DepartFrame

\* the scheduler aborts the run's controller
DepartAbort ==
    /\ ~aborted
    /\ dpc # "done"
    /\ aborted' = TRUE
    /\ UNCHANGED <<dpc, dclock, dvalid, dresult, dsent, darrival, dreached>>
    /\ DepartFrame

NextDepart ==
    \/ DepartExecute
    \/ DepartLoop
    \/ DepartFetch
    \/ DepartNotify
    \/ DepartSleep
    \/ DepartAbort

\* execute is called at any time of day with any arrival time, config valid or not
InitDeparts ==
    /\ jobs = CHOOSE js \in InitJobs : TRUE
    /\ job_runs = <<>>
    /\ InitSched
    /\ InitRepo
    /\ InitChat
    /\ InitJobSvc
    /\ InitMem
    /\ InitSkill
    /\ InitStore
    /\ InitTitle
    /\ dpc = "idle"
    /\ dclock \in TimesOfDay
    /\ darrival \in TimesOfDay
    /\ dvalid \in BOOLEAN
    /\ aborted = FALSE
    /\ dresult = NoResult
    /\ dsent = 0
    /\ dreached = pastArrival(dclock, darrival)

SpecDepart == InitDeparts /\ [][NextDepart]_vars

\* ---- jobs of every max_retries -----------------------------------------------
\* two one-shot jobs, a prompt job and a skill job, created with max_retries 0, 1
\* or the default
RetryJobs ==
    {[j \in Jobs |-> IF j = 1 THEN JobRow("prompt", NoSchedule, m[1], 0)
                              ELSE JobRow("skill", NoSchedule, m[2], 0)] :
        m \in [Jobs -> {0, 1, DEFAULT_MAX_RETRIES}]}

InitRetries ==
    /\ jobs \in RetryJobs
    /\ job_runs = <<>>
    /\ InitSched
    /\ InitRepo
    /\ InitChat
    /\ InitJobSvc
    /\ InitMem
    /\ InitSkill
    /\ InitStore
    /\ InitTitle
    /\ InitDepart

SpecRetries == InitRetries /\ [][Alive]_vars

\* ---- properties of the repository -------------------------------------------
TypeOK ==
    /\ now \in 0..MaxTime
    /\ Len(job_runs) <= MaxRuns

RowsIn(runs, j, t) ==
    {i \in 1..Len(runs) : runs[i].job_id = j /\ runs[i].scheduled_for = t}

\* the step in which caller c returns from createIdempotent
CreateReturns(c) == cpc[c] = "insert" /\ cpc'[c] = "idle"

\* C1 as stated: after any createIdempotent(J, t) call has returned, job_runs holds
\* exactly one row (J, t)
C1_ExactlyOneRow ==
    \A c \in Callers :
        (cpc[c] = "idle" /\ carg[c].op = "create" /\ cres[c] \in {"true", "false"})
            => Cardinality(RowsIn(job_runs, carg[c].job_id, carg[c].ts)) = 1

C1_Step ==
    /\ \A j \in Jobs, t \in Instants : Cardinality(RowsIn(job_runs', j, t)) <= 1
    /\ \A c \in Callers :
        CreateReturns(c) =>
            LET before == Cardinality(RowsIn(job_runs, carg[c].job_id, carg[c].ts))
                after == Cardinality(RowsIn(job_runs', carg[c].job_id, carg[c].ts))
            IN /\ (cres'[c] = "true") <=> (before = 0 /\ after = 1)
               /\ cres'[c] \in {"true", "false"}
               /\ after = 1 \/ ~carg[c].notRunning

\* C1 (amended): after any number of createIdempotent(J, t) calls, sequential or
\* concurrent, job_runs holds at most one row (J, t), and exactly one unless the
\* call found another run of J with status running; the call that inserts the row
\* returns true and every other call returns false.
C1_AtMostOneRow == [][C1_Step]_vars

\* two callers have returned from createIdempotent with the same (J, t): one
\* inserted the row, the other did not
C1_Witness ==
    \E c1, c2 \in Callers :
        /\ c1 # c2
        /\ cpc[c1] = "idle" /\ cpc[c2] = "idle"
        /\ carg[c1].op = "create" /\ carg[c2].op = "create"
        /\ carg[c1].job_id = carg[c2].job_id /\ carg[c1].ts = carg[c2].ts
        /\ cres[c1] = "true" /\ cres[c2] = "false"
        /\ carg[c2].notRunning
        /\ Cardinality(RowsIn(job_runs, carg[c1].job_id, carg[c1].ts)) = 1

\* the step in which caller c returns a row from claimPending
ClaimReturnsRow(c) == cpc[c] = "update" /\ cpc'[c] = "idle"

\* the step in which caller c returns null from claimPending
ClaimReturnsNull(c) ==
    calls'[c] = calls[c] + 1 /\ carg'[c].op = "claim" /\ cres'[c] = "null"

C2_Step ==
    \A c \in Callers :
        /\ ClaimReturnsRow(c) =>
            /\ job_runs[carg[c].sel].status = "pending"
            /\ job_runs'[carg[c].sel].status = "running"
            /\ \A d \in Callers \ {c} : ~(cpc[d] = "update" /\ carg[d].sel = carg[c].sel)
        /\ ClaimReturnsNull(c) =>
            \A i \in 1..Len(job_runs) :
                job_runs[i].status = "pending" => rowLock[i] \in Callers \ {c}

\* C2: under concurrent claimPending calls every row is returned to at most one
\* claimer (the row returned was pending, is not held by another claimer and is
\* running on return; a running row is never returned), and a claimer gets null
\* only when every pending row is held by another claimer.
C2_SingleClaim == [][C2_Step]_vars

\* two claimers hold two different rows at the same time, and a third statement
\* could find nothing left
C2_Witness ==
    \E c1, c2 \in Callers :
        /\ c1 # c2
        /\ cpc[c1] = "update" /\ cpc[c2] = "update"
        /\ carg[c1].sel # carg[c2].sel
        /\ Claimable(job_runs, rowLock) = {}

\* ---- properties of the scheduler --------------------------------------------
\* a tick invocation holds a claimed run: from claimPending to the end of the tick
Executing(s) == pc[s] \in {"lookup", "dispatch", "exec"}

\* the step in which the tick invocation s returns (the process did not die)
TickEnds(s) == pc[s] # "idle" /\ pc'[s] = "idle" /\ tickTimer' # NULL

RunningOf(runs, j) ==
    {i \in 1..Len(runs) : runs[i].job_id = j /\ runs[i].status = "running"}

\* C3: a run that a tick is executing stays running under an unexpired lease, so
\* that no reset and no claim takes it away, and no other tick executes it.
C3_OneExecutor ==
    \A s \in Slots :
        Executing(s) =>
            /\ job_runs[claimed[s].id].status = "running"
            /\ job_runs[claimed[s].id].locked_until >= now
            /\ \A s2 \in Slots \ {s} : Executing(s2) => claimed[s2].id # claimed[s].id

\* a tick has been executing the first run since time 0, for longer than the
\* lease, which the second refresh has renewed, while another tick invocation,
\* having reset abandoned runs, is about to claim
C3_Witness ==
    \E s, s2 \in Slots :
        /\ now > LEASE
        /\ pc[s] = "exec" /\ claimed[s].id = 1
        /\ job_runs[1].locked_until = 2 * LOCK_REFRESH_INTERVAL + LEASE
        /\ pc[s2] = "claim"

C4_Step ==
    /\ \A s \in Slots : (pc[s] = "idle" /\ pc'[s] # "idle") => pc'[s] = "reset"
    /\ \A s \in Slots :
        (pc[s] = "reset" /\ pc'[s] # "reset" /\ tickTimer' # NULL) =>
            /\ pc'[s] = "findDue"
            /\ Len(job_runs') = Len(job_runs)
            /\ \A i \in 1..Len(job_runs) :
                IF job_runs[i].status = "running" /\ job_runs[i].locked_until < now
                THEN /\ job_runs'[i].status = "pending"
                     /\ job_runs'[i].locked_until = NULL
                     /\ job_runs'[i].retry_count = job_runs[i].retry_count
                     /\ i \in Claimable(job_runs', NoLocks)
                ELSE job_runs'[i] = job_runs[i]

\* C4: the first step of every tick is resetAbandoned, which sets every running
\* row whose locked_until < now back to pending with locked_until NULL, after
\* which claimPending can take it, and leaves every other row unchanged.
C4_LeaseRecovery == [][C4_Step]_vars

\* a run whose executor died was reset, claimed again and dispatched again: it
\* has two wake threads
C4_Witness ==
    \E a, b \in 1..Len(threads) :
        /\ a # b
        /\ threads[a].job_run_id = threads[b].job_run_id
        /\ job_runs[threads[a].job_run_id].status = "running"

\* C5 as stated: at no time are two tick() invocations in progress
C5_TicksSerialize == Cardinality({s \in Slots : pc[s] # "idle"}) <= 1

\* the step in which tick s gets the result of createIdempotent for a due job
EnqueueReturns(s) == pc[s] = "enqueue" /\ pc'[s] = "advance"

\* C6 as stated: once the enqueue step has handled a due job J with
\* next_run_at = t, exactly one row (J, t) exists
C6_EveryInstantGetsRun ==
    [][\A s \in Slots :
        EnqueueReturns(s) =>
            Cardinality(RowsIn(job_runs', cur'[s].id, cur'[s].next_run_at)) = 1]_vars

C6_Step ==
    \A s \in Slots :
        EnqueueReturns(s) =>
            LET n == Cardinality(RowsIn(job_runs', cur'[s].id, cur'[s].next_run_at))
                running == \E i \in 1..Len(job_runs) :
                    job_runs[i].job_id = cur'[s].id /\ job_runs[i].status = "running"
            IN  /\ cur'[s] \in dueJobs[s]
                /\ IF running THEN job_runs' = job_runs ELSE n = 1

\* C6 (amended): once the enqueue step has handled a due job J with
\* next_run_at = t, exactly one row (J, t) exists unless another run of J had
\* status running at that moment; then the step inserts nothing and the fire
\* instant t gets no run.
C6_InstantGetsRunUnlessRunning == [][C6_Step]_vars

\* a tick found job J due while a run of J was running: no row for that instant
C6_Witness ==
    \E s \in Slots :
        /\ pc[s] = "advance"
        /\ RowsIn(job_runs, cur[s].id, cur[s].next_run_at) = {}
        /\ RunningOf(job_runs, cur[s].id) # {}

\* C7 as stated: at most one job_run per job has status running
C7_NoOverlap == \A j \in Jobs : Cardinality(RunningOf(job_runs, j)) <= 1

C8_Step ==
    \A s \in Slots :
        TickEnds(s) =>
            /\ created[s] # {} => (claimed[s].id # 0 /\ claimed[s].id <= MinOf(created[s]))
            /\ (claimed[s].id \in created[s] /\ job[s].kind = "prompt") =>
                LET r == claimed[s].id IN
                /\ job_runs'[r].status \in {"completed", "failed"}
                /\ job_runs'[r].status = "completed" =>
                    /\ thread[s] \in 1..Len(threads')
                    /\ job_runs'[r].thread_id = thread[s]
                    /\ threads'[thread[s]].source = "wake"
                    /\ threads'[thread[s]].job_run_id = r
                    /\ \E k \in 1..Len(threads'[thread[s]].messages) :
                        threads'[thread[s]].messages[k] = "assistant"
                    /\ jobs'[job[s].id].next_run_at > job_runs'[r].scheduled_for
                    /\ notifications' =
                        Append(notifications, [title |-> "Job completed", job |-> job[s].id])

C9_FailedRunRetried ==
    \A i \in 1..MaxRuns :
        (/\ i <= Len(job_runs)
         /\ job_runs[i].status = "failed"
         /\ job_runs[i].retry_count < jobs[job_runs[i].job_id].max_retries)
            ~> (i <= Len(job_runs) /\ job_runs[i].status = "pending")

\* the step in which tick s leaves the failure path of the run it executed
FailurePath(s) ==
    /\ pc[s] = "exec"
    /\ TickEnds(s)
    /\ job_runs'[claimed[s].id].status = "failed"

C10_Step ==
    \A s \in Slots :
        FailurePath(s) =>
            /\ job_runs'[claimed[s].id].retry_count = job_runs[claimed[s].id].retry_count + 1
            /\ IF claimed[s].retry_count + 1 >= jobs[claimed[s].job_id].max_retries
               THEN notifications' =
                        Append(notifications, [title |-> "Job failed", job |-> claimed[s].job_id])
               ELSE notifications' = notifications

\* C10: the failure path increments retry_count by exactly one and sends the
\* 'Job failed' notification if and only if the claimed run's
\* retry_count + 1 >= job.max_retries.
C10_FailureNotification == [][C10_Step]_vars

\* a run of job 1 (max_retries 1) failed and was announced; a run of job 2
\* (max_retries 3) failed and was not
C10_Witness ==
    /\ \E i \in 1..Len(job_runs) :
        job_runs[i].job_id = 2 /\ job_runs[i].status = "failed" /\ job_runs[i].error = "error"
    /\ \E i \in 1..Len(job_runs) :
        job_runs[i].job_id = 1 /\ job_runs[i].status = "failed"
    /\ \E k \in 1..Len(notifications) : notifications[k] = [title |-> "Job failed", job |-> 1]
    /\ \A k \in 1..Len(notifications) : notifications[k] # [title |-> "Job failed", job |-> 2]

\* ---- properties of the chat path ---------------------------------------------
MessageIds == 1..Len(messages)

\* ids of the messages with one role that request r inserted
WroteRole(msgs, ids, role) == {i \in ids : i \in 1..Len(msgs) /\ msgs[i].role = role}

\* a user message among the rows ids is a row of thread t
UserPersisted(msgs, ids, t) ==
    \E i \in WroteRole(msgs, ids, "user") : msgs[i].thread_id = t

\* positions of runStream after the user message's insert and up to the LM run
AfterAddUser == {"getMessages", "assemble", "refetch", "run", "stream"}

C11_Step ==
    \A r \in Reqs :
        /\ rpc'[r] \in AfterAddUser => UserPersisted(messages', wrote'[r], rthread'[r])
        /\ UserPersisted(messages, wrote[r], rthread[r]) =>
            /\ wrote[r] \subseteq wrote'[r]
            /\ \A i \in MessageIds : i \in 1..Len(messages') /\ messages'[i] = messages[i]

\* C11: in every runStream call the user message is a row of the thread before the
\* thread's messages are read, before the memory recall and before the LM run, and
\* no later step, failing or not, removes or changes it.
C11_UserMessageFirst == [][C11_Step]_vars

\* a call whose LM run was started failed, and its user message is in the thread
C11_Witness ==
    \E r \in Reqs :
        /\ rpc[r] = "closed"
        /\ sse[r][Len(sse[r])].event = "error"
        /\ yielded[r] # <<>>
        /\ UserPersisted(messages, wrote[r], rthread[r])

\* ids of the system messages of thread t
SystemIds(msgs, t) ==
    {i \in 1..Len(msgs) : msgs[i].thread_id = t /\ msgs[i].role = "system"}

C12_Step ==
    \A t \in ChatThreads :
        /\ Cardinality(SystemIds(messages', t)) <= 1
        /\ \A i \in SystemIds(messages, t) :
            /\ i \in SystemIds(messages', t)
            /\ messages'[i] = messages[i]
            /\ SystemIds(messages', t) = {i}

\* C12: whatever runStream calls ran on a thread, failing and interleaving ones
\* included, the thread has at most one system message, and once it has one no
\* step writes a system message to the thread again or changes the one it has.
C12_SystemSingleton == [][C12_Step]_vars

\* two calls are streaming on one thread that has its system message, written by
\* the one whose getMessages saw a single message; the other wrote none
C12_Witness ==
    \E t \in ChatThreads :
        /\ \A r \in Reqs : rthread[r] = t /\ rpc[r] = "stream"
        /\ Cardinality(SystemIds(messages, t)) = 1
        /\ \E r \in Reqs : WroteRole(messages, wrote[r], "system") = {}

HasSystem(list) == \E i \in 1..Len(list) : list[i].role = "system"

\* C13: in the list getMessages returns for a thread a system message, when
\* present, is the first element, and the input of every LM run is the system
\* message, then the prior messages, then the current user message.
C13_SystemAtHead ==
    /\ \A t \in ChatThreads :
        HasSystem(getMessages(messages, t)) => getMessages(messages, t)[1].role = "system"
    /\ \A r \in Reqs :
        (rpc[r] = "stream" /\ HasSystem(inputItems[r])) =>
            /\ inputItems[r][1].role = "system"
            /\ inputItems[r][Len(inputItems[r])].role = "user"

\* the texts of the delta events of y, in order
DeltaText(y) ==
    [i \in 1..Len(SelectSeq(y, LAMBDA e : e.type = "delta")) |->
        SelectSeq(y, LAMBDA e : e.type = "delta")[i].content]

\* C14: a run whose consumer stopped iterating after the LM was invoked wrote no
\* assistant message; every run has written either no assistant message or one
\* whose content is the concatenation of all deltas of the run, never a shorter
\* prefix, and it writes it only once the stream has ended.
C14_NoPartialOnCancel ==
    \A r \in Reqs :
        LET mine == WroteRole(messages, wrote[r], "assistant")
        IN /\ Cardinality(mine) <= 1
           /\ rpc[r] = "cancelled" => mine = {}
           /\ \A i \in mine :
                /\ messages[i].content = DeltaText(yielded[r])
                /\ messages[i].thread_id = rthread[r]
                /\ rpc[r] \in {"resolve", "awaitUsage", "closed"}

\* a run was cancelled after it had yielded text, and wrote no assistant message,
\* while the other run on the thread wrote its whole text
C14_Witness ==
    \E r, q \in Reqs :
        /\ rpc[r] = "cancelled" /\ fullText[r] # <<>>
        /\ WroteRole(messages, wrote[r], "assistant") = {}
        /\ rthread[q] = rthread[r]
        /\ \E i \in WroteRole(messages, wrote[q], "assistant") :
            Len(messages[i].content) = MaxEvents

\* the step in which the LM stream of request r throws after events were yielded
ThrowsMidStream(r) == rpc[r] = "stream" /\ rpc'[r] = "closed" /\ yielded[r] # <<>>

C15_Step ==
    \A r \in Reqs :
        ThrowsMidStream(r) =>
            /\ sse'[r] = Append(sse[r], [event |-> "error", data |-> 0])
            /\ messages' = Append(messages,
                    Message(rthread[r], "assistant", fullText[r], NULL))

\* C15: when the LM stream raises an error after events were yielded, the stream
\* ends, an assistant message with the partial fullText and no usage is persisted
\* for the thread, and the route writes an error event.
C15_PartialPersistedOnError == [][C15_Step]_vars

\* the stream of request r is drained: the generator returned without an error
Drained(r) == rpc[r] = "awaitUsage" \/ (rpc[r] = "closed" /\ resolved[r] # <<>>)

C16_Step ==
    \A r \in Reqs :
        /\ Len(resolved'[r]) <= 1
        /\ Drained(r)' => Len(resolved'[r]) = 1
        /\ resolved'[r] # resolved[r] =>
            /\ rpc[r] = "resolve"
            /\ resolved'[r][1] \in Usages
            /\ \E i \in WroteRole(messages, wrote[r], "assistant") :
                /\ messages[i].usage = resolved'[r][1]
                /\ messages[i].content = DeltaText(yielded[r])
        /\ resolved[r] # <<>> => yielded'[r] = yielded[r] /\ resolved'[r] = resolved[r]

\* C16: for every runStream whose stream is drained without error the usage
\* promise is resolved exactly once, with the usage record or null, in a step
\* that comes after the assistant message was persisted; no event is yielded
\* after the resolution, and it never happens before the stream is drained.
C16_UsageResolvesOnce == [][C16_Step]_vars

\* one response was completed with a usage record, the other with null
C16_Witness ==
    \E r, q \in Reqs :
        /\ rpc[r] = "closed" /\ resolved[r] = <<1>> /\ Len(yielded[r]) = MaxEvents
        /\ rpc[q] = "closed" /\ resolved[q] = <<NULL>>

Terminal == {"done", "error"}

\* the events of a response after the thread event and before the terminal one
Middle(out) ==
    IF out # <<>> /\ out[Len(out)].event \in Terminal
    THEN SubSeq(out, 2, Len(out) - 1)
    ELSE SubSeq(out, 2, Len(out))

C17_Step ==
    \A r \in Reqs :
        /\ status'[r] = 200 =>
            /\ sse'[r][1] = [event |-> "thread", data |-> rthread'[r]]
            /\ Len(Middle(sse'[r])) = Len(yielded'[r])
            /\ \A k \in 1..Len(yielded'[r]) :
                /\ Middle(sse'[r])[k].event = yielded'[r][k].type
                /\ Middle(sse'[r])[k].data = yielded'[r][k].content
            /\ (rpc'[r] = "closed") <=> (sse'[r][Len(sse'[r])].event \in Terminal)
        /\ status'[r] # 200 => sse'[r] = <<>>
        /\ rpc[r] = "closed" => sse'[r] = sse[r]

\* C17: the response of every accepted POST /chat/completions is the thread
\* event once and first, then the delta, tool_call and tool_result events in the
\* order the stream yielded them, then exactly one of done or error as the last
\* event, written when the response is ended; nothing is written after it.
C17_EventSequence == [][C17_Step]_vars

\* one response ended with done after a tool call and its result, the other with
\* error after a delta
C17_Witness ==
    \E r, q \in Reqs :
        /\ rpc[r] = "closed" /\ Len(sse[r]) = 4
        /\ sse[r][2].event = "tool_call" /\ sse[r][3].event = "tool_result"
        /\ sse[r][4].event = "done"
        /\ rpc[q] = "closed" /\ Len(sse[q]) = 3
        /\ sse[q][2].event = "delta" /\ sse[q][3].event = "error"

\* request r is inside runStream or consuming its stream
InFlight(r) == rpc[r] \notin {"idle", "closed", "cancelled"}

\* C18: the chat endpoint never has two runStream calls in flight for the same
\* thread, so in every thread each user message is followed by the assistant
\* reply of its own run before the next user message is persisted.
C18_OneRunPerThread ==
    /\ \A r, q \in Reqs : (r # q /\ InFlight(r) /\ InFlight(q)) => rthread[r] # rthread[q]
    /\ \A r \in Reqs : \A i \in WroteRole(messages, wrote[r], "user") :
        \A k \in MessageIds :
            (k > i /\ messages[k].thread_id = messages[i].thread_id /\ messages[k].role = "user")
                => \E a \in WroteRole(messages, wrote[r], "assistant") : a < k

\* ---- properties of the notifications -----------------------------------------
\* the step of tick s ends its run and hands a notification with this title to notify
Notifies(s, title) ==
    /\ pc[s] = "exec"
    /\ TickEnds(s)
    /\ Len(notifications') = Len(notifications) + 1
    /\ notifications'[Len(notifications')].title = title

C19_Step ==
    /\ \A configured \in BOOLEAN, d \in Deliveries : notify(configured, d) = "returned"
    /\ \A s \in Slots :
        /\ Notifies(s, "Job completed") =>
            job_runs' = complete(job_runs, claimed[s].id, thread[s])
        /\ Notifies(s, "Job failed") =>
            job_runs' = fail(job_runs, claimed[s].id, "error")

\* C19: notify returns to its caller whether or not url and topic are configured
\* and whatever the request comes to, so a run that ended well and was announced
\* is completed and a run that failed and was announced has failed once: the
\* outcome of a notification never changes the status the job_run ends in.
C19_NotifyNeverFails == [][C19_Step]_vars

\* a run that was announced as completed is completed, and a run that was
\* announced as failed has failed
C19_Witness ==
    /\ \E k \in 1..Len(notifications), i \in 1..Len(job_runs) :
        /\ notifications[k].title = "Job completed"
        /\ job_runs[i].job_id = notifications[k].job
        /\ job_runs[i].status = "completed"
    /\ \E k \in 1..Len(notifications), i \in 1..Len(job_runs) :
        /\ notifications[k].title = "Job failed"
        /\ job_runs[i].job_id = notifications[k].job
        /\ job_runs[i].status = "failed"

\* ---- properties of JobService -------------------------------------------------
\* C20: after any sequence of JobService.create and JobService.update calls issued
\* by the REST routes or the job tools, every job that is not deleted has exactly
\* one payload: a prompt and no skill_name, or a skill_name with its skill_config
\* and no prompt.
C20_OnePayload ==
    \A j \in Jobs :
        (jobTable[j].exists /\ ~jobTable[j].deleted) =>
            \/ /\ jobTable[j].prompt # NULL
               /\ jobTable[j].skill_name = NULL
            \/ /\ jobTable[j].prompt = NULL
               /\ jobTable[j].skill_name # NULL
               /\ jobTable[j].skill_config # NULL

\* ---- properties of MemoryService and the tools --------------------------------
\* a remember call with replace_id has just returned to the tool
ReplaceReturned(c) ==
    /\ mpc[c] = "write" /\ mop[c].op = "remember" /\ mop[c].id # 0
    /\ mpc'[c] = "idle"

\* C21: MemoryService.remember with a replace_id naming a soft-deleted or missing
\* entry ends NotFound: no entry is created or changed and the caller is not told
\* that the memory was updated
C21_Step ==
    \A c \in MemCallers :
        (ReplaceReturned(c) /\ ~LiveEntry(memory_entries[mop[c].id]))
            => /\ memory_entries' = memory_entries
               /\ mout'[c].said # "updated"

C21_ReplaceDeletedIsNotFound == [][C21_Step]_vars

\* an embedding failure has just been reported to caller c
EmbedFailed(c) == mout'[c].ret = "threw" /\ mout'[c] # mout[c]

\* C23: the stored embedding of every non-deleted memory entry is the one computed
\* from its stored content, after any interleaving of remember and update calls;
\* a call whose embedding fails changes no entry
C23_Step ==
    /\ \A i \in MemIds :
        LiveEntry(memory_entries'[i])
            => memory_entries'[i].embedding = embed(memory_entries'[i].content)
    /\ \A c \in MemCallers : EmbedFailed(c) => memory_entries' = memory_entries

C23_EmbeddingMatchesContent == [][C23_Step]_vars

\* an entry was replaced by one caller while another caller's embedding failed
C23_Witness ==
    \E c, d \in MemCallers :
        /\ mout[c].said \in {"updated", "200"} /\ mout[c].ret = "row"
        /\ mout[d].ret = "threw"
        /\ \E i \in MemIds : LiveEntry(memory_entries[i]) /\ memory_entries[i].content = 2

\* ---- properties of soft delete --------------------------------------------------
\* C24: soft delete is idempotent in every repository: the first softDelete of a
\* live row stamps deleted_at and returns the row; a later one, or one of an unknown
\* id, returns not-found and leaves every column as it was
C24_Step ==
    (sres' # sres /\ sres'.op = "softDelete") =>
        IF Live(rows[sres'.id])
        THEN /\ sres'.out = "row"
             /\ rows' = [rows EXCEPT ![sres'.id].deleted_at = now]
        ELSE /\ sres'.out = "undefined"
             /\ rows' = rows

C24_SoftDeleteIdempotent == [][C24_Step]_vars

\* a second softDelete of a row found nothing, at a later time than the first
C24_Witness ==
    /\ sres.op = "softDelete" /\ sres.out = "undefined"
    /\ rows[sres.id].exists
    /\ rows[sres.id].deleted_at # NULL
    /\ rows[sres.id].deleted_at < now

\* the states a repository's table can be in: rows absent, live or soft-deleted
TableStates ==
    [RowIds -> {NoStoreRow} \cup
               {[exists |-> TRUE, deleted_at |-> d, v |-> v] : d \in {NULL, 0}, v \in Values}]

\* no read of a repository returns a soft-deleted row, and an update of a
\* soft-deleted row changes nothing and returns undefined
ReadsSkipDeleted ==
    \A rs \in TableStates : \A id \in RowIds :
        /\ \A i \in findById(rs, id) \cup findAll(rs) : rs[i].deleted_at = NULL
        /\ (rs[id].exists /\ rs[id].deleted_at # NULL)
            => \A v \in Values : updateRow(rs, id, v) = rs /\ returning(rs, id) = "undefined"

\* the tick in slot s inserts a run with this step
Enqueues(s) == pc[s] = "enqueue" /\ pc'[s] = "advance" /\ Len(job_runs') > Len(job_runs)

\* C25 as stated: no tick ever enqueues a job that is soft-deleted
C25_DeletedNeverEnqueued ==
    [][\A s \in Slots : Enqueues(s) => ~jobs[cur'[s].id].deleted]_vars

\* C25: no read returns a soft-deleted row and an update of one changes nothing;
\* findDue of a tick returns no soft-deleted job, findById of a deleted job's run
\* finds no job, so a job deleted when the tick reads the due jobs is not enqueued
C25_Step ==
    /\ ReadsSkipDeleted
    /\ \A s \in Slots :
        /\ (pc[s] = "findDue" /\ pc'[s] # "findDue")
            => \A d \in dueJobs'[s] : ~jobs[d.id].deleted
        /\ (pc[s] = "lookup" /\ pc'[s] # "lookup" /\ jobs[claimed[s].job_id].deleted)
            => /\ job'[s] = NoJob
               /\ job_runs'[claimed[s].id].error = "Job not found"
        /\ (pc[s] = "advance" /\ pc'[s] # "advance" /\ jobs[cur[s].id].deleted)
            => jobs' = jobs

C25_ReadsExcludeDeleted == [][C25_Step]_vars

\* a tick found a due job while the other job was soft-deleted and due
C25_Witness ==
    \E s \in Slots : \E j \in Jobs :
        /\ pc[s] = "enqueue"
        /\ jobs[j].deleted /\ jobs[j].enabled /\ jobs[j].next_run_at <= now
        /\ dueJobs[s] # {}
        /\ \A d \in dueJobs[s] : d.id # j

\* ---- properties of one-shot jobs ------------------------------------------------
RunsOf(runs, j) == {i \in 1..Len(runs) : runs[i].job_id = j}

\* C26: a one-shot job gets next_run_at = run_at and keeps it; the first tick that
\* reads the due jobs at or after run_at finds it, its enqueue step leaves exactly
\* one job_run, with scheduled_for = run_at, its advance step disables the job, and
\* at no time is there a second run or a run before run_at
C26_Step ==
    /\ \A r \in RunAts : \A t \in 0..MaxTime : nextRunAtOnCreate(NoSchedule, r, t) = r
    /\ \A j \in Jobs :
        /\ jobs'[j].next_run_at = jobs[j].next_run_at
        /\ Cardinality(RunsOf(job_runs', j)) <= 1
        /\ \A i \in RunsOf(job_runs', j) :
            /\ job_runs'[i].scheduled_for = jobs[j].next_run_at
            /\ jobs[j].next_run_at <= now
        /\ (~jobs[j].enabled) => ~jobs'[j].enabled
        /\ \A s \in Slots :
            /\ (pc[s] = "findDue" /\ pc'[s] \in {"enqueue", "claim"}
                    /\ jobs[j].enabled /\ jobs[j].next_run_at <= now)
                => \E d \in dueJobs'[s] : d.id = j
            /\ (pc[s] = "enqueue" /\ pc'[s] = "advance" /\ cur'[s].id = j)
                => Cardinality(RunsOf(job_runs', j)) = 1
            /\ (pc[s] = "advance" /\ pc'[s] \in {"enqueue", "claim"} /\ cur[s].id = j)
                => ~jobs'[j].enabled

C26_OneShotFiresOnce == [][C26_Step]_vars

\* a one-shot job with a run_at in the future has fired, is disabled, has its one
\* run, and ticks have gone on after that
C26_Witness ==
    \E j \in Jobs :
        /\ jobs[j].next_run_at > 0
        /\ ~jobs[j].enabled
        /\ Cardinality(RunsOf(job_runs, j)) = 1
        /\ now > jobs[j].next_run_at + 1

\* ---- properties of stop() -------------------------------------------------------
\* the run executing in slot s had its cancel signal aborted by stop()
Cancelled(s) == pc[s] = "exec" /\ claimed[s].id \notin activeAbortControllers

\* C27: after stop() no tick is started by the timer, the signal of every run in
\* flight is aborted, and a run in flight observes the cancellation: a prompt run
\* whose signal is aborted does not go on to drain the stream of the LM, persist
\* the assistant message and end completed
C27_Step ==
    /\ (tickTimer # NULL /\ tickTimer' = NULL) => activeAbortControllers' = {}
    /\ \A s \in Slots :
        /\ (pc[s] = "idle" /\ pc'[s] = "reset") => tickTimer' # NULL
        /\ (Cancelled(s) /\ job[s].kind = "prompt" /\ pc'[s] = "idle")
            => /\ threads' = threads
               /\ job_runs'[claimed[s].id].status # "completed"

C27_StopCancelsRuns == [][C27_Step]_vars

\* ---- properties of a failing tick -----------------------------------------------
\* a run is marked running and no tick invocation holds it
Orphaned(i) ==
    /\ job_runs[i].status = "running"
    /\ \A s \in Slots : claimed[s].id # i

\* C28: tick() never rejects: whichever call inside a tick fails, the tick returns,
\* the other tick invocations go on, and the interval stays set so that the next
\* timer-driven tick runs
C28_Step ==
    /\ tickTimer # NULL => tickTimer' # NULL
    /\ \A s \in Slots :
        (pc[s] # "idle" /\ pc'[s] = "idle")
            => /\ tickTimer' = tickTimer
               /\ \A s2 \in Slots \ {s} : pc'[s2] = pc[s2]
               /\ claimed'[s] = NoRow

Advances(s) == pc[s] = "advance" /\ pc'[s] \in {"enqueue", "claim"}

StillDue(js, j, t) == js[j].enabled /\ js[j].next_run_at <= t /\ ~js[j].deleted

\* C29: the enqueue step leaves no job due: each job the tick found due gets the
\* next fire time of its cron, strictly after now, as next_run_at, or is disabled
\* when there is none; when the loop is over no job is due any more, and no two
\* runs are ever enqueued for the same job and nominal instant
C29_Step ==
    /\ \A s \in Slots :
        /\ Advances(s) =>
            /\ IF computeNextRun(cur[s].schedule, now) # NULL
               THEN /\ jobs'[cur[s].id].next_run_at = computeNextRun(cur[s].schedule, now)
                    /\ jobs'[cur[s].id].next_run_at > now
                    /\ jobs'[cur[s].id].enabled = jobs[cur[s].id].enabled
               ELSE ~jobs'[cur[s].id].enabled
            /\ ~StillDue(jobs', cur[s].id, now)
        /\ (Advances(s) /\ pc'[s] = "claim") => \A j \in Jobs : ~StillDue(jobs', j, now)
    /\ \A i, k \in 1..Len(job_runs') :
        (job_runs'[i].job_id = job_runs'[k].job_id
            /\ job_runs'[i].scheduled_for = job_runs'[k].scheduled_for) => i = k

C29_EnqueueAdvances == [][C29_Step]_vars

\* after the enqueue step of a later tick: one job has a run and a next fire time
\* ahead of now, the other, without a next fire time, has been disabled
C29_Witness ==
    /\ now > 0
    /\ \E s \in Slots : pc[s] = "claim"
    /\ \E j \in Jobs :
        /\ jobs[j].schedule # NoSchedule /\ jobs[j].next_run_at > now
        /\ Cardinality({i \in 1..Len(job_runs) : job_runs[i].job_id = j}) >= 2
    /\ \E k \in Jobs : jobs[k].schedule = NoSchedule /\ ~jobs[k].enabled

\* ---- properties of the skill path -----------------------------------------------
\* the tick in slot s ends the run after skill.execute returned
SkillEnds(s) == pc[s] = "result" /\ pc'[s] = "idle"

\* C30: a skill run whose skill returns success=false ends failed with the result
\* message as error; one that returns success=true ends completed with thread_id
\* null, creates no thread, sends no success notification, and disables the job
\* if and only if disableJob is true
C30_Step ==
    \A s \in Slots :
        SkillEnds(s) =>
            IF ~result[s].success
            THEN /\ job_runs'[claimed[s].id].status = "failed"
                 /\ job_runs'[claimed[s].id].error = result[s].message
                 /\ jobs' = jobs
                 /\ threads' = threads
            ELSE /\ job_runs'[claimed[s].id].status = "completed"
                 /\ job_runs'[claimed[s].id].thread_id = NULL
                 /\ threads' = threads
                 /\ notifications' = notifications
                 /\ jobs'[job[s].id].enabled = (jobs[job[s].id].enabled /\ ~result[s].disableJob)
                 /\ \A j \in Jobs \ {job[s].id} : jobs'[j] = jobs[j]

JobMissing(s) == pc[s] = "lookup" /\ pc'[s] = "idle" /\ jobs[claimed[s].job_id].deleted

\* the tick in slot s finds no skill of the job's skill_name in the registry
SkillMissing(s) == pc[s] = "dispatch" /\ pc'[s] = "idle" /\ job[s].kind = "unknown"

\* C31: a claimed run whose job is missing or soft-deleted is marked failed with
\* 'Job not found', one whose skill is not registered with 'Unknown skill'; in both
\* cases the tick returns without a thread, an agent run or a skill call
C31_Step ==
    \A s \in Slots :
        /\ JobMissing(s) =>
            /\ job_runs'[claimed[s].id].status = "failed"
            /\ job_runs'[claimed[s].id].error = "Job not found"
            /\ threads' = threads /\ notifications' = notifications
        /\ SkillMissing(s) =>
            /\ job_runs'[claimed[s].id].status = "failed"
            /\ job_runs'[claimed[s].id].error = "Unknown skill"
            /\ threads' = threads /\ notifications' = notifications
        /\ (pc'[s] = "exec" /\ pc[s] # "exec") => job[s].kind \in {"prompt", "skill"}
        /\ (pc[s] = "lookup" /\ pc'[s] = "dispatch") => ~jobs[claimed[s].job_id].deleted

C31_UndispatchableRunFails == [][C31_Step]_vars

\* one run failed for its deleted job and one for its unknown skill, no thread made
C31_Witness ==
    /\ \E i \in 1..Len(job_runs) :
        job_runs[i].status = "failed" /\ job_runs[i].error = "Job not found"
    /\ \E k \in 1..Len(job_runs) :
        job_runs[k].status = "failed" /\ job_runs[k].error = "Unknown skill"
    /\ threads = <<>>

\* ---- properties of the thread-title handler ----------------------------------
TitleWritten(t) == titleSets'[t] # titleSets[t]

\* C32: the handler writes a thread's title only when the thread has exactly two
\* non-system messages, one user and one assistant, and the LM's trimmed title is not
\* empty; it writes it at most once per thread; it publishes thread:updated only together
\* with a write of the title; and its promise never rejects.
C32_Step ==
    /\ \A t \in TitleThreads :
        /\ TitleWritten(t) =>
            /\ titleSets'[t] = 1
            /\ threadTitle'[t] # <<>> /\ trim(threadTitle'[t]) = threadTitle'[t]
            /\ \E h \in Handlers :
                /\ hpc[h] = "updateTitle" /\ hthread[h] = t /\ threadTitle'[t] = htitle[h]
        /\ updatedSse'[t] # updatedSse[t] =>
            TitleWritten(t) /\ updatedSse'[t] = titleSets'[t]
    /\ \A h \in Handlers :
        /\ (hpc[h] = "getMessages" /\ hpc'[h] = "completion") =>
            /\ Len(NonSystemRoles(tmsgs[hthread[h]])) = 2
            /\ HasRole(tmsgs[hthread[h]], "user")
            /\ HasRole(tmsgs[hthread[h]], "assistant")
        /\ hout'[h] # "rejected"

C32_TitleOnFirstExchange == [][C32_Step]_vars

\* a later exchange completed on a thread titled by its first one, and a handler failed
C32_Witness ==
    \E t \in TitleThreads :
        /\ titleSets[t] = 1 /\ updatedSse[t] = 1 /\ threadTitle[t] = <<"T">>
        /\ Len(NonSystemRoles(tmsgs[t])) = 4
        /\ \E h \in Handlers : hout[h] = "resolved" /\ hpc[h] = "idle"
        /\ \E u \in TitleThreads : u # t /\ titleSets[u] = 0 /\ Len(NonSystemRoles(tmsgs[u])) >= 2

\* ---- properties of the departure check ---------------------------------------
\* C33: with a valid config execute never returns success = false; it returns 'Aborted'
\* without disableJob only on an aborted signal, and otherwise disableJob = true, with
\* 'Past arrival time' or after exactly one 'Time to leave' notification sent when
\* leave_by <= now + lead; a directions error never ends the loop; and once the clock
\* has reached the arrival time or the signal is aborted, the next loop test returns.
C33_Step ==
    /\ (dvalid /\ dpc' = "done") => dresult'.success
    /\ (dvalid /\ dpc # "done" /\ dpc' = "done") =>
        \/ dresult'.message = "Aborted" /\ aborted /\ ~dresult'.disableJob /\ dsent' = 0
        \/ dresult'.message = "Past arrival time" /\ dresult'.disableJob /\ dsent' = 0
        \/ dresult'.message = "Notification sent" /\ dresult'.disableJob /\ dsent' = 1
    /\ dsent' # dsent => dpc = "notify" /\ dpc' = "done"
    /\ (dpc = "fetch" /\ dpc' # dpc) => dpc' \in {"sleep", "notify"}
    /\ (dpc = "loop" /\ dpc' # dpc /\ (aborted \/ dreached)) => dpc' = "done"

C33_DepartureCheckEnds == [][C33_Step]_vars

\* ---- properties of the retry budget -------------------------------------------
\* the step in which tick s starts executing the run it claimed
StartsExecuting(s) == pc[s] = "dispatch" /\ pc'[s] = "exec"

\* C34 as stated: a claimed run is executed only if its retry_count is below its
\* job's max_retries
C34_ExecutedWithinBudget ==
    [][\A s \in Slots :
        StartsExecuting(s) => claimed[s].retry_count < job[s].max_retries]_vars

\* ---- properties of response:complete -----------------------------------------
\* C35: a run emits response:complete at most once, with its thread id, in a step that
\* finds its assistant message persisted and its usage promise unresolved; a run whose
\* stream was drained has emitted it exactly once; a run that has persisted no
\* assistant message has emitted nothing.
C35_Step ==
    \A r \in Reqs :
        /\ Len(published'[r]) <= 1
        /\ published'[r] # published[r] =>
            /\ published'[r] = <<rthread[r]>>
            /\ WroteRole(messages, wrote[r], "assistant") # {}
            /\ resolved[r] = <<>>
        /\ resolved'[r] # <<>> => Len(published'[r]) = 1
        /\ Drained(r)' => Len(published'[r]) = 1
        /\ WroteRole(messages', wrote'[r], "assistant") = {} => published'[r] = <<>>

C35_CompleteOnceAfterPersist == [][C35_Step]_vars

\* one run was drained and emitted the event, another was cancelled or failed without
C35_Witness ==
    \E r, q \in Reqs :
        /\ rpc[r] = "closed" /\ published[r] = <<rthread[r]>> /\ resolved[r] # <<>>
        /\ rpc[q] \in {"closed", "cancelled"} /\ yielded[q] # <<>> /\ published[q] = <<>>

\* ---- properties of the lease ---------------------------------------------------
\* the step is a firing of a lock refresh interval
RefreshFires == pc' = pc /\ lockRefresh' # lockRefresh /\ jobs' = jobs

\* C36: in every state locked_until is non-NULL only on rows with status running, and
\* a firing refresh interval changes nothing but locked_until, and only on a running row.
C36_Step ==
    /\ \A i \in 1..Len(job_runs') :
        job_runs'[i].locked_until # NULL => job_runs'[i].status = "running"
    /\ RefreshFires =>
        /\ Len(job_runs') = Len(job_runs)
        /\ \A i \in RunIds :
            \/ job_runs'[i] = job_runs[i]
            \/ /\ job_runs[i].status = "running"
               /\ job_runs'[i] = [job_runs[i] EXCEPT !.locked_until = now + LEASE]

C36_LeaseOnlyWhenRunning == [][C36_Step]_vars

\* the refresh interval of a run that failed is still live after firing, next to a
\* running run that holds a lease
C36_Witness ==
    /\ \E t \in lockRefresh :
        /\ job_runs[t.run].status = "failed"
        /\ job_runs[t.run].locked_until = NULL
        /\ t.at >= 2 * LOCK_REFRESH_INTERVAL
    /\ \E i \in RunIds : job_runs[i].status = "running" /\ job_runs[i].locked_until > LEASE

\* ---- properties of completed runs ----------------------------------------------
\* C37 as stated: a run that is completed keeps that status and its retry_count
C37_CompletedIsFinal ==
    [][\A i \in RunIds :
        job_runs[i].status = "completed" =>
            /\ job_runs'[i].status = "completed"
            /\ job_runs'[i].retry_count = job_runs[i].retry_count]_vars

\* ---- properties of terminal failures -------------------------------------------
\* C38 as stated: a run that failed on an exception or a skill failure (failed runs are
\* never executed again) has had a 'Job failed' notification sent for its job
C38_TerminalFailureAnnounced ==
    \A i \in RunIds :
        (job_runs[i].status = "failed" /\ job_runs[i].error = "error") =>
            \E k \in 1..Len(notifications) :
                notifications[k] = [title |-> "Job failed", job |-> job_runs[i].job_id]

\* ---- properties of the order of service ----------------------------------------
PendingRuns(runs) == {i \in 1..Len(runs) : runs[i].status = "pending"}

\* the step in which tick s gets a row from claimPending
Claims(s) == pc[s] = "claim" /\ pc'[s] = "lookup"

\* C39: a tick claims at most one run, the pending run with the smallest id, and only a
\* claim takes a run out of pending; with ticks that keep firing and executions that
\* end, every pending run is eventually completed or failed.
C39_Step ==
    /\ \A s \in Slots :
        /\ Claims(s) =>
            /\ PendingRuns(job_runs) # {}
            /\ claimed'[s].id = MinOf(PendingRuns(job_runs))
            /\ PendingRuns(job_runs') = PendingRuns(job_runs) \ {claimed'[s].id}
            /\ job_runs'[claimed'[s].id].status = "running"
        /\ (pc[s] = "claim" /\ pc'[s] = "idle") => PendingRuns(job_runs) = {}
    /\ \A i \in PendingRuns(job_runs) :
        job_runs'[i].status # "pending" => \E s \in Slots : Claims(s) /\ claimed'[s].id = i

C39_OldestFirstNoStarvation ==
    /\ [][C39_Step]_vars
    /\ \A i \in 1..MaxRuns :
        (i <= Len(job_runs) /\ job_runs[i].status = "pending")
            ~> (i <= Len(job_runs) /\ job_runs[i].status \in {"completed", "failed"})

\* of two pending runs a tick has claimed the older one
C39_Witness ==
    /\ Len(job_runs) = 2
    /\ job_runs[1].status = "running"
    /\ job_runs[2].status = "pending"
    /\ \E s \in Slots : pc[s] = "lookup" /\ claimed[s].id = 1

\* ---- properties of the timers and controllers of a tick ---------------------------
\* C40 as stated: whenever no tick is in progress no lock refresh interval is live and
\* activeAbortControllers is empty
C40_NothingLeftBehind ==
    (\A s \in Slots : pc[s] = "idle") => (lockRefresh = {} /\ activeAbortControllers = {})

====
